---- MODULE Spec2Model ----
(***************************************************************************)
(* Verification model of the NCAA_Football betting dashboard:              *)
(*   - the odds analytics engine of public/convert-nfl.js                  *)
(*     (moneylineToDecimal, impliedProbabilityFromMoneyline,               *)
(*      selectBestMoneyline, computeNFLMetrics),                           *)
(*   - the Redis cache-or-fetch helper of the serverless API               *)
(*     (getRedis, cacheGetSet, the /api/games handler),                    *)
(*   - the data-source fallback of server.js (getGamesData).               *)
(*                                                                         *)
(* JavaScript numbers are modelled as exact rationals n/d extended with    *)
(* Infinity, -Infinity and NaN; the other JavaScript values the code       *)
(* tests for (null, undefined, '', a non-numeric string) are tagged        *)
(* values. Every value is a record [t, n, d] so that values of different   *)
(* kinds can be compared.                                                  *)
(***************************************************************************)
EXTENDS Integers, Sequences, FiniteSets, TLC

VARIABLES
    mlIn,          \* odds utilities: the argument ml
    candsIn,       \* odds utilities: the argument candidates
    decimalOut,    \* result of moneylineToDecimal(mlIn)
    probOut,       \* result of impliedProbabilityFromMoneyline(mlIn)
    bestOut,       \* result of selectBestMoneyline(candsIn)
    games,         \* analytics engine: the argument of computeNFLMetrics
    decorated,     \* analytics engine: its result (<<>> before the call)
    redisEnv,      \* serverless API: are the Upstash credentials set
    supabaseEnv,   \* serverless API: are the Supabase credentials set
    redisClient,   \* serverless API: _redis, TRUE once the client exists
    store,         \* serverless API: the Redis contents, key -> value
    req,           \* serverless API: the /api/games requests in progress
    fetches,       \* fetcher calls per key since the last ttlSeconds elapsed
    answered,      \* keys answered with status 200 in that time
    handled,       \* requests accepted in that time
    supabase,      \* server.js: is the Supabase client initialised
    dataFile,      \* server.js: sport -> state of data/<sport>-games.json
    gameCaches,    \* server.js: sport -> {data, timestamp}
    now,           \* server.js: Date.now()
    ticks,         \* server.js: how often the clock has advanced
    call,          \* server.js: the /api/games requests in progress
    rawGames,      \* server.js: the raw rows handed to a mapper
    mappedGames,   \* server.js: rawGames.map(mapper) (<<>> before the call)
    decimalIn,     \* row converter: the decimal odds cells of a sheet row
    americanOut,   \* row converter: their American odds (<<>> before the call)
    sportIn,       \* server.js: the argument of resolveSportKey
    sportKeyOut    \* server.js: <<its result>> (<<>> before the call)

oddsVars == <<mlIn, candsIn, decimalOut, probOut, bestOut>>

metricsVars == <<games, decorated>>

cacheVars ==
    <<redisEnv, supabaseEnv, redisClient, store, req, fetches, answered, handled>>

serverVars == <<supabase, dataFile, gameCaches, now, ticks, call>>

mapperVars == <<rawGames, mappedGames>>

converterVars == <<decimalIn, americanOut>>

resolverVars == <<sportIn, sportKeyOut>>

vars == <<mlIn, candsIn, decimalOut, probOut, bestOut, games, decorated,
          redisEnv, supabaseEnv, redisClient, store, req, fetches, answered,
          handled, supabase, dataFile, gameCaches, now, ticks, call,
          rawGames, mappedGames, decimalIn, americanOut, sportIn,
          sportKeyOut>>

----------------------------------------------------------------------------
(* JavaScript values *)

JsVal(t, n, d) == [t |-> t, n |-> n, d |-> d]

NULL      == JsVal("null", 0, 1)
UNDEFINED == JsVal("undefined", 0, 1)
EMPTYSTR  == JsVal("emptystr", 0, 1)     \* the string ''
TEXT      == JsVal("text", 0, 1)         \* a non-numeric string such as 'N/A'
NAN       == JsVal("nan", 0, 1)
POSINF    == JsVal("inf", 1, 0)
NEGINF    == JsVal("inf", -1, 0)
UNSET     == JsVal("unset", 0, 1)        \* a result not computed yet
JSTRUE    == JsVal("bool", 1, 1)
JSFALSE   == JsVal("bool", 0, 1)

JsBool(b) == IF b THEN JSTRUE ELSE JSFALSE

\* the strings whose content the code looks at or produces
StringTable ==
    << "ncaaf", "nfl", "Postseason", "Regular", "Consensus", "DraftKings",
       "true", "Yes", "no" >>

\* the string s of StringTable as a value
Text(s) ==
    JsVal("text", CHOOSE i \in DOMAIN StringTable : StringTable[i] = s, 1)

AbsInt(i) == IF i < 0 THEN -i ELSE i

RECURSIVE GCD(_, _)
GCD(a, b) == IF b = 0 THEN a ELSE GCD(b, a % b)

\* the finite number n/d in lowest terms (d # 0)
Rat(n, d) ==
    LET g == GCD(AbsInt(n), AbsInt(d))
        s == IF d < 0 THEN -1 ELSE 1
    IN  JsVal("num", (s * n) \div g, (s * d) \div g)

Num(i) == JsVal("num", i, 1)

IsNumberType(v) == v.t \in {"num", "inf", "nan"}

\* Number.isFinite on a value of type number
IsFinite(v) == v.t = "num"

Sign(v) == IF v.n > 0 THEN 1 ELSE IF v.n < 0 THEN -1 ELSE 0

Inf(s) == IF s < 0 THEN NEGINF ELSE POSINF

\* Number(value)
JsNumber(v) ==
    CASE v.t \in {"null", "emptystr"} -> Num(0)
      [] v.t \in {"undefined", "text"} -> NAN
      [] v.t = "bool" -> Num(v.n)
      [] OTHER -> v

\* IEEE arithmetic on extended rationals (signed zero is not distinguished)
JsAdd(a, b) ==
    CASE a.t = "nan" \/ b.t = "nan" -> NAN
      [] a.t = "inf" /\ b.t = "inf" -> IF a.n = b.n THEN a ELSE NAN
      [] a.t = "inf" -> a
      [] b.t = "inf" -> b
      [] OTHER -> Rat(a.n * b.d + b.n * a.d, a.d * b.d)

JsNeg(a) ==
    CASE a.t = "nan" -> NAN
      [] a.t = "inf" -> Inf(-a.n)
      [] OTHER -> Rat(-a.n, a.d)

JsSub(a, b) == JsAdd(a, JsNeg(b))

JsMul(a, b) ==
    CASE a.t = "nan" \/ b.t = "nan" -> NAN
      [] a.t = "inf" \/ b.t = "inf" ->
            IF Sign(a) * Sign(b) = 0 THEN NAN ELSE Inf(Sign(a) * Sign(b))
      [] OTHER -> Rat(a.n * b.n, a.d * b.d)

JsDiv(a, b) ==
    CASE a.t = "nan" \/ b.t = "nan" -> NAN
      [] a.t = "inf" /\ b.t = "inf" -> NAN
      [] a.t = "inf" -> Inf(a.n * (IF b.n < 0 THEN -1 ELSE 1))
      [] b.t = "inf" -> Num(0)
      [] b.n = 0 -> IF a.n = 0 THEN NAN ELSE Inf(a.n)
      [] OTHER -> Rat(a.n * b.d, a.d * b.n)

\* Math.abs
JsAbs(a) ==
    CASE a.t = "nan" -> NAN
      [] a.t = "inf" -> POSINF
      [] OTHER -> Rat(AbsInt(a.n), a.d)

\* a < b on numbers (false when either is NaN)
JsLess(a, b) ==
    CASE a.t = "nan" \/ b.t = "nan" -> FALSE
      [] a.t = "inf" /\ b.t = "inf" -> a.n < b.n
      [] a.t = "inf" -> a.n < 0
      [] b.t = "inf" -> b.n > 0
      [] OTHER -> a.n * b.d < b.n * a.d

JsGreater(a, b) == JsLess(b, a)

JsGeq(a, b) == JsLess(b, a) \/ (a.t # "nan" /\ a = b)

\* Math.max of two numbers
JsMax(a, b) ==
    IF a.t = "nan" \/ b.t = "nan" THEN NAN
    ELSE IF JsLess(a, b) THEN b ELSE a

\* JavaScript truthiness of a value
Truthy(v) ==
    CASE v.t \in {"null", "undefined", "emptystr", "nan", "unset"} -> FALSE
      [] v.t \in {"num", "bool"} -> v.n # 0
      [] OTHER -> TRUE

\* a ?? b
Coalesce(a, b) == IF a.t \in {"null", "undefined"} THEN b ELSE a

----------------------------------------------------------------------------
(* Odds conversion utilities *)

toNumber(value) ==
    IF value.t \in {"null", "undefined", "emptystr"} THEN NULL
    ELSE LET num == JsNumber(value)
         IN  IF IsFinite(num) THEN num ELSE NULL

moneylineToDecimal(ml) ==
    LET odds == JsNumber(ml)
    IN  IF ~IsFinite(odds) THEN NULL
        ELSE IF JsGreater(odds, Num(0))
             THEN JsAdd(JsDiv(odds, Num(100)), Num(1))
             ELSE JsAdd(JsDiv(Num(100), JsAbs(odds)), Num(1))

impliedProbabilityFromMoneyline(ml) ==
    LET odds == JsNumber(ml)
    IN  IF ~IsFinite(odds) THEN NULL
        ELSE IF JsGreater(odds, Num(0))
             THEN JsDiv(Num(100), JsAdd(odds, Num(100)))
             ELSE LET abs == JsAbs(odds)
                  IN  JsDiv(abs, JsAdd(abs, Num(100)))

Best(value, decimal) == [value |-> value, decimal |-> decimal]

\* selectBestStep with >= in place of > (the last maximal candidate wins)
selectBestStep_lastWins(best, candidate) ==
    LET value == toNumber(candidate)
        decimal == moneylineToDecimal(value)
    IN  IF value = NULL THEN best
        ELSE IF ~Truthy(decimal) THEN best
        ELSE IF best.decimal = NULL \/ JsGeq(decimal, best.decimal)
             THEN Best(value, decimal)
             ELSE best

\* one iteration of the forEach callback of selectBestMoneyline
selectBestStep(best, candidate) ==
    LET value == toNumber(candidate)
        decimal == moneylineToDecimal(value)
    IN  IF value = NULL THEN best
        ELSE IF ~Truthy(decimal) THEN best
        ELSE IF best.decimal = NULL \/ JsGreater(decimal, best.decimal)
             THEN Best(value, decimal)
             ELSE best

RECURSIVE selectBestFold(_, _)
selectBestFold(best, candidates) ==
    IF candidates = <<>> THEN best
    ELSE selectBestFold(selectBestStep(best, Head(candidates)), Tail(candidates))

selectBestMoneyline(candidates) == selectBestFold(Best(NULL, NULL), candidates)

----------------------------------------------------------------------------
(* The row converter: decimal odds of the sheet to American odds *)

\* Math.round: the nearest integer, the larger one when two are equally near
MathRound(x) ==
    IF x.t # "num" THEN x
    ELSE Num((2 * x.n + x.d) \div (2 * x.d))

\* a <= b on numbers (false when either is NaN)
JsLeq(a, b) == JsGeq(b, a)

\* the guard with num < 1 in place of num <= 1
IsNotDecimalOdds_evenAllowed(num) == ~IsFinite(num) \/ JsLess(num, Num(1))

\* !Number.isFinite(num) || num <= 1
IsNotDecimalOdds(num) == ~IsFinite(num) \/ JsLeq(num, Num(1))

decimalToAmerican(decimal) ==
    LET num == toNumber(decimal)
    IN  IF IsNotDecimalOdds(num) THEN NULL
        ELSE IF JsGeq(num, Num(2))
        THEN MathRound(JsMul(JsSub(num, Num(1)), Num(100)))
        ELSE JsNeg(MathRound(JsDiv(Num(100), JsSub(num, Num(1)))))

----------------------------------------------------------------------------
(* computeNFLMetrics *)

Quote(open, close, min, max) ==
    [open |-> open, close |-> close, min |-> min, max |-> max]

\* {}: a history object that is absent from the game record
EmptyHistory == Quote(UNDEFINED, UNDEFINED, UNDEFINED, UNDEFINED)

\* Number(x.toFixed(2)) for a finite x >= 0: the nearest multiple of 0.01,
\* the larger one when two are equally near
ToFixed2(x) ==
    IF x.t # "num" THEN x
    ELSE Rat((2 * 100 * x.n + x.d) \div (2 * x.d), 100)

\* the inverseSum test of the arbitrage detector
IsArbitrage_inclusive(inverseSum) == JsGeq(Num(1), inverseSum)

IsArbitrage(inverseSum) == JsLess(inverseSum, Num(1))

\* arbProfit of lines 540-546
ArbProfit(bestHome, bestAway) ==
    IF Truthy(bestHome.decimal) /\ Truthy(bestAway.decimal)
    THEN LET inverseSum == JsAdd(JsDiv(Num(1), bestHome.decimal),
                                 JsDiv(Num(1), bestAway.decimal))
         IN  IF IsArbitrage(inverseSum)
             THEN JsMul(JsSub(Num(1), inverseSum), Num(100))
             ELSE NULL
    ELSE NULL

\* a missing operand counts as 0
NullableDiff_missingAsZero(close, open) ==
    JsSub(JsNumber(close), JsNumber(open))

\* (close !== null && open !== null) ? close - open : null
NullableDiff(close, open) ==
    IF close # NULL /\ open # NULL THEN JsSub(close, open) ELSE NULL

\* the probability shift of one side, lines 516-526
ProbShift(mlOpen, mlClose) ==
    LET probOpen == impliedProbabilityFromMoneyline(mlOpen)
        probClose == impliedProbabilityFromMoneyline(mlClose)
    IN  IF probOpen # NULL /\ probClose # NULL
        THEN JsMul(JsSub(probClose, probOpen), Num(100))
        ELSE NULL

\* the tag is put in front of the list
PushIf_front(signals, cond, tag) == IF cond THEN <<tag>> \o signals ELSE signals

\* signals.push(tag) when cond holds
PushIf(signals, cond, tag) == IF cond THEN Append(signals, tag) ELSE signals

\* the sign of the line move is kept
Clv_sameSign(lineMove) == lineMove

\* line 502
Clv(lineMove) == IF lineMove # NULL THEN JsNeg(lineMove) ELSE NULL

\* the threshold is exclusive
IsSpreadSteam_exclusive(lineMove) ==
    lineMove # NULL /\ JsGreater(JsAbs(lineMove), Rat(5, 2))

\* line 505
IsSpreadSteam(lineMove) ==
    lineMove # NULL /\ JsGeq(JsAbs(lineMove), Rat(5, 2))

\* a close equal to the open counts as a move
IsReverse_notStrict(spreadOpen, spreadClose) ==
    /\ spreadOpen # NULL /\ spreadClose # NULL
    /\ \/ JsLess(spreadOpen, Num(0)) /\ JsGeq(spreadClose, spreadOpen)
       \/ JsGreater(spreadOpen, Num(0)) /\ JsGeq(spreadOpen, spreadClose)

\* lines 507-511
IsReverse(spreadOpen, spreadClose) ==
    /\ spreadOpen # NULL /\ spreadClose # NULL
    /\ \/ JsLess(spreadOpen, Num(0)) /\ JsGreater(spreadClose, spreadOpen)
       \/ JsGreater(spreadOpen, Num(0)) /\ JsLess(spreadClose, spreadOpen)

\* the threshold of SPREAD STEAM is used for the total
IsTotalSteam_spreadThreshold(totalMove) ==
    totalMove # NULL /\ JsGeq(JsAbs(totalMove), Rat(5, 2))

\* line 514
IsTotalSteam(totalMove) ==
    totalMove # NULL /\ JsGeq(JsAbs(totalMove), Num(2))

\* the ranges enter the sum with their sign
VolatilityScore_signedRanges(lineMove, spreadRange, totalMove, totalRange, maxProbShift) ==
    ToFixed2(
        JsAdd(JsAdd(JsAdd(JsAdd(
            JsAbs(Coalesce(lineMove, Num(0))),
            JsMul(Coalesce(spreadRange, Num(0)), Rat(1, 2))),
            JsMul(JsAbs(Coalesce(totalMove, Num(0))), Rat(1, 2))),
            JsMul(Coalesce(totalRange, Num(0)), Rat(1, 4))),
            IF IsFinite(maxProbShift) THEN JsDiv(maxProbShift, Num(5)) ELSE Num(0)))

\* lines 549-558
VolatilityScore(lineMove, spreadRange, totalMove, totalRange, maxProbShift) ==
    ToFixed2(
        JsAdd(JsAdd(JsAdd(JsAdd(
            JsAbs(Coalesce(lineMove, Num(0))),
            JsMul(JsMax(Coalesce(spreadRange, Num(0)), Num(0)), Rat(1, 2))),
            JsMul(JsAbs(Coalesce(totalMove, Num(0))), Rat(1, 2))),
            JsMul(JsMax(Coalesce(totalRange, Num(0)), Num(0)), Rat(1, 4))),
            IF IsFinite(maxProbShift) THEN JsDiv(maxProbShift, Num(5)) ELSE Num(0)))

\* the fields computeNFLMetrics adds to (or overwrites in) one game record
DerivedFields(game) ==
    LET spreadHistory == game.spreadHistory
        totalHistory == game.totalHistory
        homeMoneylineHistory == game.homeMoneylineHistory
        awayMoneylineHistory == game.awayMoneylineHistory
        spreadOddsHistory == game.spreadOddsHistory
        totalOverHistory == game.totalOverOddsHistory
        totalUnderHistory == game.totalUnderOddsHistory

        spreadOpen == toNumber(Coalesce(spreadHistory.open, game.openingSpread))
        spreadClose == toNumber(Coalesce(spreadHistory.close, game.spread))
        spreadMin == toNumber(spreadHistory.min)
        spreadMax == toNumber(spreadHistory.max)

        totalOpen == toNumber(Coalesce(totalHistory.open, game.openingOverUnder))
        totalClose == toNumber(Coalesce(totalHistory.close, game.overUnder))
        totalMin == toNumber(totalHistory.min)
        totalMax == toNumber(totalHistory.max)

        homeMlOpen == toNumber(Coalesce(homeMoneylineHistory.open, game.homeMoneylineOpen))
        homeMlClose == toNumber(Coalesce(homeMoneylineHistory.close, game.homeMoneyline))
        homeMlMin == toNumber(Coalesce(homeMoneylineHistory.min, game.homeMoneylineMin))
        homeMlMax == toNumber(Coalesce(homeMoneylineHistory.max, game.homeMoneylineMax))

        awayMlOpen == toNumber(Coalesce(awayMoneylineHistory.open, game.awayMoneylineOpen))
        awayMlClose == toNumber(Coalesce(awayMoneylineHistory.close, game.awayMoneyline))
        awayMlMin == toNumber(Coalesce(awayMoneylineHistory.min, game.awayMoneylineMin))
        awayMlMax == toNumber(Coalesce(awayMoneylineHistory.max, game.awayMoneylineMax))

        spreadOddsOpen == toNumber(Coalesce(spreadOddsHistory.open, game.homeLineOddsOpen))
        spreadOddsClose == toNumber(Coalesce(spreadOddsHistory.close, game.homeLineOddsClose))

        totalOverOpen == toNumber(Coalesce(totalOverHistory.open, game.totalScoreOverOpen))
        totalOverClose == toNumber(Coalesce(totalOverHistory.close, game.totalScoreOverClose))
        totalUnderOpen == toNumber(Coalesce(totalUnderHistory.open, game.totalScoreUnderOpen))
        totalUnderClose == toNumber(Coalesce(totalUnderHistory.close, game.totalScoreUnderClose))

        lineMove == NullableDiff(spreadClose, spreadOpen)
        totalMove == NullableDiff(totalClose, totalOpen)
        spreadRange == NullableDiff(spreadMax, spreadMin)
        totalRange == NullableDiff(totalMax, totalMin)

        clv == Clv(lineMove)

        signals1 == PushIf(<<>>, IsSpreadSteam(lineMove), "SPREAD STEAM")

        isReverse == IsReverse(spreadOpen, spreadClose)
        signals2 == PushIf(signals1, isReverse, "REVERSE")

        signals3 == PushIf(signals2, IsTotalSteam(totalMove), "TOTAL STEAM")

        homeProbShift == ProbShift(homeMlOpen, homeMlClose)
        awayProbShift == ProbShift(awayMlOpen, awayMlClose)

        maxProbShift == JsMax(JsAbs(Coalesce(homeProbShift, Num(0))),
                              JsAbs(Coalesce(awayProbShift, Num(0))))
        signals4 == PushIf(signals3,
                           IsFinite(maxProbShift) /\ JsGeq(maxProbShift, Num(5)),
                           "ML STEAM")

        bestHome == selectBestMoneyline(<<homeMlOpen, homeMlClose, homeMlMin, homeMlMax>>)
        bestAway == selectBestMoneyline(<<awayMlOpen, awayMlClose, awayMlMin, awayMlMax>>)

        arbProfit == ArbProfit(bestHome, bestAway)
        signals == PushIf(signals4, arbProfit # NULL, "ARB")

        volatilityScore == VolatilityScore(lineMove, spreadRange, totalMove,
                                           totalRange, maxProbShift)
    IN  [ lineMove |-> lineMove,
          totalMove |-> totalMove,
          spreadRange |-> spreadRange,
          totalRange |-> totalRange,
          clv |-> clv,
          arbProfit |-> arbProfit,
          signals |-> signals,
          spreadOpen |-> spreadOpen,
          spreadClose |-> spreadClose,
          spreadMin |-> spreadMin,
          spreadMax |-> spreadMax,
          totalOpen |-> totalOpen,
          totalClose |-> totalClose,
          totalMin |-> totalMin,
          totalMax |-> totalMax,
          homeMoneylineOpen |-> homeMlOpen,
          homeMoneylineClose |-> homeMlClose,
          homeMoneylineMin |-> homeMlMin,
          homeMoneylineMax |-> homeMlMax,
          awayMoneylineOpen |-> awayMlOpen,
          awayMoneylineClose |-> awayMlClose,
          awayMoneylineMin |-> awayMlMin,
          awayMoneylineMax |-> awayMlMax,
          homeProbabilityShift |-> Coalesce(homeProbShift, NULL),
          awayProbabilityShift |-> Coalesce(awayProbShift, NULL),
          moneylineSteam |-> maxProbShift,
          spreadOddsOpen |-> spreadOddsOpen,
          spreadOddsClose |-> spreadOddsClose,
          totalOverOpen |-> totalOverOpen,
          totalOverClose |-> totalOverClose,
          totalUnderOpen |-> totalUnderOpen,
          totalUnderClose |-> totalUnderClose,
          bestHomeMoneyline |-> bestHome.value,
          bestHomeMoneylineDecimal |-> bestHome.decimal,
          bestAwayMoneyline |-> bestAway.value,
          bestAwayMoneylineDecimal |-> bestAway.decimal,
          volatilityScore |-> volatilityScore ]

\* only the derived fields
DecorateGame_derivedOnly(game) == DerivedFields(game)

\* { ...game, <derived fields> }: the derived fields win over the game's own
DecorateGame(game) ==
    LET derived == DerivedFields(game)
    IN  [k \in DOMAIN game \cup DOMAIN derived |->
            IF k \in DOMAIN derived THEN derived[k] ELSE game[k]]

\* games.map(game => ...)
computeNFLMetrics(gameList) ==
    [i \in DOMAIN gameList |-> DecorateGame(gameList[i])]

----------------------------------------------------------------------------
(* The state of a component that is not exercised *)

UnsetBest == Best(UNSET, UNSET)

OddsIdle ==
    /\ mlIn = NULL
    /\ candsIn = <<>>
    /\ decimalOut = UNSET
    /\ probOut = UNSET
    /\ bestOut = UnsetBest

MetricsIdle ==
    /\ games = <<>>
    /\ decorated = <<>>

MapperIdle ==
    /\ rawGames = <<>>
    /\ mappedGames = <<>>

ConverterIdle ==
    /\ decimalIn = <<>>
    /\ americanOut = <<>>

ResolverIdle ==
    /\ sportIn = <<>>
    /\ sportKeyOut = <<>>

----------------------------------------------------------------------------
(* server.js: the mappers of raw rows, mapNCAAFGame and mapNFLGame *)

\* the market channels of mapNFLGame
HistoryPrefixes ==
    { "HomeMoneyline", "AwayMoneyline", "HomeLine", "AwayLine", "HomeLineOdds",
      "AwayLineOdds", "TotalScore", "TotalScoreOver", "TotalScoreUnder" }

HistorySuffixes == {"Open", "Min", "Max", "Close", ""}

\* prefix.charAt(0).toLowerCase() + prefix.slice(1)
LowerFirstOfPrefix(prefix) ==
    CASE prefix = "HomeMoneyline" -> "homeMoneyline"
      [] prefix = "AwayMoneyline" -> "awayMoneyline"
      [] prefix = "HomeLine" -> "homeLine"
      [] prefix = "AwayLine" -> "awayLine"
      [] prefix = "HomeLineOdds" -> "homeLineOdds"
      [] prefix = "AwayLineOdds" -> "awayLineOdds"
      [] prefix = "TotalScore" -> "totalScore"
      [] prefix = "TotalScoreOver" -> "totalScoreOver"
      [] prefix = "TotalScoreUnder" -> "totalScoreUnder"

\* key.charAt(0).toLowerCase() + key.slice(1) for a key prefix + suffix
LowerFirst(key) ==
    LET parts == CHOOSE ps \in HistoryPrefixes \X HistorySuffixes :
                     ps[1] \o ps[2] = key
    IN  LowerFirstOfPrefix(parts[1]) \o parts[2]

\* the keys a raw row can have
RawKeys ==
    { "Id", "id", "Season", "season", "Week", "week", "StartDate", "startDate",
      "HomeTeam_x", "HomeTeam", "homeTeam", "AwayTeam_x", "AwayTeam", "awayTeam",
      "HomeConference", "homeConference", "AwayConference", "awayConference",
      "HomeScore", "homeScore", "AwayScore", "awayScore", "Spread", "spread",
      "OverUnder", "overUnder", "OpeningSpread", "openingSpread",
      "OpeningOverUnder", "openingOverUnder", "Completed", "LineProvider",
      "lineProvider", "SeasonType", "seasonType", "NeutralVenue",
      "neutralVenue", "PlayoffGame", "playoffGame", "Notes", "notes" }
    \cup {ps[1] \o ps[2] : ps \in HistoryPrefixes \X HistorySuffixes}
    \cup {LowerFirstOfPrefix(ps[1]) \o ps[2] :
              ps \in HistoryPrefixes \X HistorySuffixes}

\* a raw row is a function on RawKeys; a key the row does not have reads
\* undefined
EmptyRow == [k \in RawKeys |-> UNDEFINED]

\* Object.prototype.hasOwnProperty.call(game, key): rows come from JSON,
\* where no key holds undefined
HasOwn(game, key) == game[key] # UNDEFINED

\* game.A ?? game.b ?? null
Pick2(game, a, b) == Coalesce(game[a], Coalesce(game[b], NULL))

\* game.A ?? game.B ?? game.c ?? null
Pick3(game, a, b, c) == Coalesce(game[a], Pick2(game, b, c))

\* lines 388-390
completed(game, homeScore, awayScore) ==
    IF game["Completed"].t = "bool" THEN game["Completed"]
    ELSE JsBool(IsFinite(homeScore) /\ IsFinite(awayScore))

mapNCAAFGame(game) ==
    LET homeScore == toNumber(Coalesce(game["HomeScore"], game["homeScore"]))
        awayScore == toNumber(Coalesce(game["AwayScore"], game["awayScore"]))
    IN  [ id |-> Pick2(game, "Id", "id"),
          sport |-> Text("ncaaf"),
          season |-> Pick2(game, "Season", "season"),
          week |-> Pick2(game, "Week", "week"),
          startDate |-> Pick2(game, "StartDate", "startDate"),
          homeTeam |-> Pick3(game, "HomeTeam_x", "HomeTeam", "homeTeam"),
          awayTeam |-> Pick3(game, "AwayTeam_x", "AwayTeam", "awayTeam"),
          homeConference |-> Pick2(game, "HomeConference", "homeConference"),
          awayConference |-> Pick2(game, "AwayConference", "awayConference"),
          homeScore |-> homeScore,
          awayScore |-> awayScore,
          spread |-> toNumber(Coalesce(game["Spread"], game["spread"])),
          overUnder |-> toNumber(Coalesce(game["OverUnder"], game["overUnder"])),
          openingSpread |->
              toNumber(Coalesce(game["OpeningSpread"], game["openingSpread"])),
          openingOverUnder |->
              toNumber(Coalesce(game["OpeningOverUnder"],
                                game["openingOverUnder"])),
          homeMoneyline |->
              toNumber(Coalesce(game["HomeMoneyline"], game["homeMoneyline"])),
          awayMoneyline |->
              toNumber(Coalesce(game["AwayMoneyline"], game["awayMoneyline"])),
          seasonType |-> Pick2(game, "SeasonType", "seasonType"),
          completed |-> completed(game, homeScore, awayScore),
          lineProvider |-> Pick2(game, "LineProvider", "lineProvider") ]

\* the first of game[key], game[LowerFirst(key)] that is a finite number
pickNumericValue(game, key) ==
    LET first == IF HasOwn(game, key) THEN toNumber(game[key]) ELSE NULL
        second == IF HasOwn(game, LowerFirst(key))
                  THEN toNumber(game[LowerFirst(key)]) ELSE NULL
    IN  IF first # NULL THEN first ELSE second

mapOddsHistory(game, prefix) ==
    [ open |-> pickNumericValue(game, prefix \o "Open"),
      min |-> pickNumericValue(game, prefix \o "Min"),
      max |-> pickNumericValue(game, prefix \o "Max"),
      close |-> Coalesce(pickNumericValue(game, prefix \o "Close"),
                         pickNumericValue(game, prefix)) ]

mapLineHistory(game, prefix) ==
    [ open |-> pickNumericValue(game, prefix \o "Open"),
      min |-> pickNumericValue(game, prefix \o "Min"),
      max |-> pickNumericValue(game, prefix \o "Max"),
      close |-> Coalesce(pickNumericValue(game, prefix \o "Close"),
                         pickNumericValue(game, prefix)) ]

\* String(value).trim().toLowerCase() is one of 'true', 't', 'yes', 'y',
\* '1', for the strings of StringTable
SaysYes(value) == value \in {Text("true"), Text("Yes")}

toBoolean(value) ==
    CASE value.t \in {"null", "undefined"} -> FALSE
      [] value.t = "bool" -> value = JSTRUE
      [] value.t \in {"num", "inf", "nan"} -> ~(value.t = "num" /\ value.n = 0)
      [] OTHER -> SaysYes(value)

\* a || b
Or(a, b) == IF Truthy(a) THEN a ELSE b

mapNFLGame(game) ==
    LET base == mapNCAAFGame(game)
        playoffGame ==
            IF game["PlayoffGame"].t = "bool" THEN game["PlayoffGame"] = JSTRUE
            ELSE toBoolean(Coalesce(game["PlayoffGame"], game["playoffGame"]))
        own ==
          [ sport |-> Text("nfl"),
            seasonType |-> Or(base.seasonType,
                              IF playoffGame THEN Text("Postseason")
                              ELSE Text("Regular")),
            lineProvider |-> Or(base.lineProvider, Text("Consensus")),
            neutralVenue |-> Pick2(game, "NeutralVenue", "neutralVenue"),
            playoffGame |-> JsBool(playoffGame),
            notes |-> Pick2(game, "Notes", "notes"),
            moneylineHistory |->
                [ home |-> mapOddsHistory(game, "HomeMoneyline"),
                  away |-> mapOddsHistory(game, "AwayMoneyline") ],
            spreadHistory |->
                [ home |-> mapLineHistory(game, "HomeLine"),
                  away |-> mapLineHistory(game, "AwayLine") ],
            spreadOddsHistory |->
                [ home |-> mapOddsHistory(game, "HomeLineOdds"),
                  away |-> mapOddsHistory(game, "AwayLineOdds") ],
            totalHistory |-> mapLineHistory(game, "TotalScore"),
            totalOverOddsHistory |-> mapOddsHistory(game, "TotalScoreOver"),
            totalUnderOddsHistory |-> mapOddsHistory(game, "TotalScoreUnder") ]
    IN  [k \in DOMAIN base \cup DOMAIN own |->
            IF k \in DOMAIN own THEN own[k] ELSE base[k]]

\* rawGames.map(mapNCAAFGame).filter(Boolean): a mapped record is an
\* object, which filter(Boolean) keeps
CallMapNCAAFGame ==
    /\ rawGames # <<>>
    /\ mappedGames = <<>>
    /\ mappedGames' = [i \in DOMAIN rawGames |-> mapNCAAFGame(rawGames[i])]
    /\ UNCHANGED <<oddsVars, metricsVars, cacheVars, serverVars, converterVars, resolverVars, rawGames>>

\* rawGames.map(mapNFLGame).filter(Boolean)
CallMapNFLGame ==
    /\ rawGames # <<>>
    /\ mappedGames = <<>>
    /\ mappedGames' = [i \in DOMAIN rawGames |-> mapNFLGame(rawGames[i])]
    /\ UNCHANGED <<oddsVars, metricsVars, cacheVars, serverVars, converterVars, resolverVars, rawGames>>

----------------------------------------------------------------------------
(* server.js: getGamesData and the /api/games route *)

\* const CACHE_DURATION = 5 * 60 * 1000
CACHE_DURATION == 300000

DEFAULT_SPORT == "ncaaf"

\* Object.keys(SPORT_CONFIG)
Sports == {"ncaaf", "nfl"}

\* Text that the code lowercases or searches is a sequence of characters;
\* <<>> is the empty string, which also stands for a missing parameter
\* (value || '', and the truthiness tests of the filters).
UpperLetters ==
    << "A", "B", "C", "D", "E", "F", "G", "H", "I", "J", "K", "L", "M",
       "N", "O", "P", "Q", "R", "S", "T", "U", "V", "W", "X", "Y", "Z" >>

LowerLetters ==
    << "a", "b", "c", "d", "e", "f", "g", "h", "i", "j", "k", "l", "m",
       "n", "o", "p", "q", "r", "s", "t", "u", "v", "w", "x", "y", "z" >>

\* String.prototype.toLowerCase
toLowerCase(text) ==
    [i \in DOMAIN text |->
        IF \E k \in DOMAIN UpperLetters : UpperLetters[k] = text[i]
        THEN LowerLetters[CHOOSE k \in DOMAIN UpperLetters :
                              UpperLetters[k] = text[i]]
        ELSE text[i]]

\* String.prototype.includes
includes(text, part) ==
    \E i \in 0..(Len(text) - Len(part)) :
        SubSeq(text, i + 1, i + Len(part)) = part

\* the characters of a property name
Characters(name) ==
    CASE name = "ncaaf" -> <<"n", "c", "a", "a", "f">>
      [] name = "nfl" -> <<"n", "f", "l">>
      [] name = "constructor" ->
            <<"c", "o", "n", "s", "t", "r", "u", "c", "t", "o", "r">>
      [] name = "__proto__" ->
            <<"_", "_", "p", "r", "o", "t", "o", "_", "_">>

\* the lower-case property names that SPORT_CONFIG, an object literal, takes
\* from Object.prototype with a truthy value
InheritedKeys == {"constructor", "__proto__"}

\* the names for which SPORT_CONFIG[key] is truthy
TruthyKeys == Sports \cup InheritedKeys

resolveSportKey(value) ==
    LET key == toLowerCase(value)
    IN  IF \E name \in TruthyKeys : Characters(name) = key
        THEN CHOOSE name \in TruthyKeys : Characters(name) = key
        ELSE DEFAULT_SPORT

\* the handlers that can be in progress at the same time (between its
\* awaits a handler runs without interruption, and the JSON/cache path has
\* no await another handler can overtake)
Calls == {"c1"}

\* how often the clock advances
MaxTicks == 2

Game(id, season, week, homeTeam, awayTeam, homeConference, awayConference) ==
    [ id |-> id, season |-> season, week |-> week,
      homeTeam |-> homeTeam, awayTeam |-> awayTeam,
      homeConference |-> homeConference, awayConference |-> awayConference ]

Tigers == <<"T", "i", "g", "e", "r", "s">>
Eagles == <<"E", "a", "g", "l", "e", "s">>
Bears == <<"B", "e", "a", "r", "s">>
SEC == <<"S", "E", "C">>
ACC == <<"A", "C", "C">>

\* rawGames.map(mapper).filter(Boolean) of data/<sport>-games.json
JsonGames(sport) ==
    << Game("json-" \o sport \o "-1", 2023, 1, Tigers, Eagles, SEC, SEC),
       Game("json-" \o sport \o "-2", 2024, 2, Eagles, Bears, SEC, ACC),
       Game("json-" \o sport \o "-3", 2024, 2, Bears, Tigers, ACC, ACC) >>

\* demo(): generated games
DemoGames(sport) ==
    << Game("demo-" \o sport \o "-1", 2023, 1, Tigers, Bears, SEC, SEC),
       Game("demo-" \o sport \o "-2", 2024, 2, Eagles, Tigers, ACC, ACC) >>

\* the rows get_games_for_dashboard can return
DatabaseRows(sport) ==
    << Game("db-" \o sport \o "-1", 2024, 1, Tigers, Bears, SEC, ACC) >>

\* null in a place that holds a list
NoList == << [null |-> TRUE] >>

\* the `data` of the RPC answer: null, no rows, rows
DatabaseAnswers(sport) == {NoList, <<>>, DatabaseRows(sport)}

\* the query parameters season, week, conference, limit; 0 and <<>> stand
\* for a parameter that was not given
Filters(season, week, conference, limit) ==
    [season |-> season, week |-> week, conference |-> conference,
     limit |-> limit]

NoFilters == Filters(0, 0, <<>>, 0)

FilterChoices == {NoFilters, Filters(2024, 2, <<"A", "c">>, 1)}

\* the query parameter team
TeamChoices == {<<>>, <<"t", "I", "G">>}

\* lines 513-527 and 539-553
ApplyFilters(list, filters) ==
    LET bySeason ==
            IF filters.season # 0
            THEN SelectSeq(list, LAMBDA g : g.season = filters.season)
            ELSE list
        byWeek ==
            IF filters.week # 0
            THEN SelectSeq(bySeason, LAMBDA g : g.week = filters.week)
            ELSE bySeason
        byConference ==
            IF filters.conference # <<>>
            THEN SelectSeq(byWeek, LAMBDA g :
                    \/ includes(toLowerCase(g.homeConference),
                                toLowerCase(filters.conference))
                    \/ includes(toLowerCase(g.awayConference),
                                toLowerCase(filters.conference)))
            ELSE byWeek
    IN  IF filters.limit # 0
        THEN SubSeq(byConference, 1,
                    IF filters.limit < Len(byConference)
                    THEN filters.limit ELSE Len(byConference))
        ELSE byConference

\* lines 582-587
ApplyTeamFilter(list, team) ==
    IF team # <<>>
    THEN SelectSeq(list, LAMBDA g :
            \/ includes(toLowerCase(g.homeTeam), toLowerCase(team))
            \/ includes(toLowerCase(g.awayTeam), toLowerCase(team)))
    ELSE list

\* timestamp: null
NoTimestamp == 0

\* line 54
EmptyCache == [data |-> NoList, timestamp |-> NoTimestamp]

IdleCall ==
    [ pc |-> "idle", sport |-> DEFAULT_SPORT, filters |-> NoFilters,
      team |-> <<>>, games |-> NoList, from |-> "none", data |-> NoList,
      source |-> "none" ]

ServerIdle ==
    /\ supabase = FALSE
    /\ dataFile = [sp \in Sports |-> "missing"]
    /\ gameCaches = [sp \in Sports |-> EmptyCache]
    /\ now = 1
    /\ ticks = 0
    /\ call = [c \in Calls |-> IdleCall]

\* loadGamesForSport: the mapped JSON file, demo data when the file is
\* missing or cannot be read or parsed
loadGamesForSport(sport) ==
    IF dataFile[sport] = "ok" THEN JsonGames(sport) ELSE DemoGames(sport)

\* where the list of loadGamesForSport comes from
LoadedFrom(sport) == IF dataFile[sport] = "ok" THEN "json" ELSE "demo"

\* line 509 with <= in place of <
CacheIsFresh_inclusive(cache) ==
    /\ cache.data # NoList
    /\ cache.timestamp # NoTimestamp
    /\ now - cache.timestamp <= CACHE_DURATION

\* line 509
CacheIsFresh(cache) ==
    /\ cache.data # NoList
    /\ cache.timestamp # NoTimestamp
    /\ now - cache.timestamp < CACHE_DURATION

\* lines 505-560: the JSON/cache path of getGamesData for call record q;
\* it runs without interruption (loadGamesForSport reads the file
\* synchronously and no other handler runs before its promise is awaited)
FallbackResult(q) ==
    LET cache == gameCaches[q.sport]
    IN  IF CacheIsFresh(cache)
        THEN [q EXCEPT !.games = ApplyFilters(cache.data, q.filters),
                       !.from = "cache"]
        ELSE [q EXCEPT !.games = ApplyFilters(loadGamesForSport(q.sport),
                                              q.filters),
                       !.from = LoadedFrom(q.sport)]

\* the filtered list is stored in place of the loaded one
FallbackCaches_storesFiltered(q) ==
    IF CacheIsFresh(gameCaches[q.sport]) THEN gameCaches
    ELSE [gameCaches EXCEPT ![q.sport] =
            [data |-> ApplyFilters(loadGamesForSport(q.sport), q.filters),
             timestamp |-> now]]

\* lines 534-535
FallbackCaches(q) ==
    IF CacheIsFresh(gameCaches[q.sport]) THEN gameCaches
    ELSE [gameCaches EXCEPT ![q.sport] =
            [data |-> loadGamesForSport(q.sport), timestamp |-> now]]

\* line 123 and line 499: return games || []
OnDatabaseAnswer(q, answer) ==
    [q EXCEPT !.games = IF answer = NoList THEN <<>> ELSE answer,
              !.from = "database"]

\* lines 620-630: the response of the route
Respond(q, data) ==
    [q EXCEPT !.pc = "done", !.data = data,
              !.source = IF supabase THEN "database" ELSE "json"]

\* lines 581-630 with the list of getGamesData in q.games: the team filter,
\* then the sharp_money_signals query when Supabase is set and games are
\* left (every game of the model has an id), else the response
AfterGetGamesData(q) ==
    LET list == ApplyTeamFilter(q.games, q.team)
    IN  IF supabase /\ Len(list) > 0
        THEN [q EXCEPT !.pc = "signals", !.games = list]
        ELSE Respond([q EXCEPT !.games = list], list)

\* a row of sharp_money_signals
Signal(gameId, signalType, confidence) ==
    [game_id |-> gameId, signal_type |-> signalType,
     confidence_score |-> confidence]

\* the `data` of the signals query for the games of q: null, no rows, two
\* rows for the first game (one without a score)
SignalAnswers(q) ==
    { NoList, <<>>,
      << Signal(q.games[1].id, "RLM", NULL),
         Signal(q.games[1].id, "STEAM", Num(80)) >> }

RECURSIVE MaxConfidence(_)
\* Math.max(...gameSignals.map(s => s.confidence_score || 0)) of a list
\* that is not empty
MaxConfidence(gameSignals) ==
    LET score == IF Truthy(Head(gameSignals).confidence_score)
                 THEN Head(gameSignals).confidence_score ELSE Num(0)
    IN  IF Len(gameSignals) = 1 THEN score
        ELSE JsMax(score, MaxConfidence(Tail(gameSignals)))

\* lines 602-612
WithSignals(game, signals) ==
    LET gameSignals ==
            IF signals = NoList THEN <<>>
            ELSE SelectSeq(signals, LAMBDA sig : sig.game_id = game.id)
    IN  [ game |-> game,
          sharpSignals |-> [i \in DOMAIN gameSignals |->
                               gameSignals[i].signal_type],
          sharpConfidence |-> IF Len(gameSignals) > 0
                              THEN MaxConfidence(gameSignals) ELSE NULL,
          hasSharpAction |-> Len(gameSignals) > 0 ]

\* app.get('/api/games') up to its first await that another handler can
\* overtake
StartGames(c, sportParam, filters, team) ==
    /\ call[c].pc = "idle"
    /\ LET q == [call[c] EXCEPT !.sport = resolveSportKey(sportParam),
                                !.filters = filters, !.team = team]
       IN  IF supabase
           THEN /\ call' = [call EXCEPT ![c] = [q EXCEPT !.pc = "database"]]
                /\ UNCHANGED gameCaches
           ELSE /\ call' = [call EXCEPT ![c] =
                               AfterGetGamesData(FallbackResult(q))]
                /\ gameCaches' = FallbackCaches(q)
    /\ UNCHANGED <<oddsVars, metricsVars, cacheVars, mapperVars, converterVars, resolverVars, supabase, dataFile, now,
                   ticks>>

\* the RPC answers without an error
DatabaseReturns(c, answer) ==
    /\ call[c].pc = "database"
    /\ call' = [call EXCEPT ![c] =
                   AfterGetGamesData(OnDatabaseAnswer(call[c], answer))]
    /\ UNCHANGED <<oddsVars, metricsVars, cacheVars, mapperVars, converterVars, resolverVars, supabase, dataFile,
                   gameCaches, now, ticks>>

\* the RPC fails: lines 117-128 and 500-502, then the JSON/cache path
DatabaseFails(c) ==
    /\ call[c].pc = "database"
    /\ call' = [call EXCEPT ![c] = AfterGetGamesData(FallbackResult(call[c]))]
    /\ gameCaches' = FallbackCaches(call[c])
    /\ UNCHANGED <<oddsVars, metricsVars, cacheVars, mapperVars, converterVars, resolverVars, supabase, dataFile, now,
                   ticks>>

\* the signals query answers
SignalsReturn(c, signals) ==
    /\ call[c].pc = "signals"
    /\ call' = [call EXCEPT ![c] =
                   Respond(call[c], [i \in DOMAIN call[c].games |->
                                        WithSignals(call[c].games[i], signals)])]
    /\ UNCHANGED <<oddsVars, metricsVars, cacheVars, mapperVars, converterVars, resolverVars, supabase, dataFile,
                   gameCaches, now, ticks>>

\* the signals query throws: lines 614-617, the games go out as they are
SignalsFail(c) ==
    /\ call[c].pc = "signals"
    /\ call' = [call EXCEPT ![c] = Respond(call[c], call[c].games)]
    /\ UNCHANGED <<oddsVars, metricsVars, cacheVars, mapperVars, converterVars, resolverVars, supabase, dataFile,
                   gameCaches, now, ticks>>

\* the response has been sent
FinishCall(c) ==
    /\ call[c].pc = "done"
    /\ call' = [call EXCEPT ![c] = IdleCall]
    /\ UNCHANGED <<oddsVars, metricsVars, cacheVars, mapperVars, converterVars, resolverVars, supabase, dataFile,
                   gameCaches, now, ticks>>

\* time passes
ClockSteps == {1, CACHE_DURATION - 1}

Advance(ms) ==
    /\ ticks < MaxTicks
    /\ ticks' = ticks + 1
    /\ now' = now + ms
    /\ UNCHANGED <<oddsVars, metricsVars, cacheVars, mapperVars, converterVars, resolverVars, supabase, dataFile,
                   gameCaches, call>>

----------------------------------------------------------------------------
(* The serverless API: getRedis, cacheGetSet and the /api/games handler *)

\* the ttlSeconds argument of cacheGetSet(redis, cacheKey, 300, ...)
ttlSeconds == 300

\* requests accepted before ttlSeconds elapse
MaxRequests == 2

\* the request handlers that can be in progress at the same time
Requests == {"r1", "r2"}

\* cacheKey: games:<sport>:<season>:<conference>:<book>:<limit>
CacheKeys == {"games:NCAAF:all:all:all:500", "games:NFL:all:all:all:500"}

\* what the fetcher returns: data || [] of the get_games_for_dashboard RPC
FetchedData == {"[]", "rows"}

NoData == "none"

\* redis.get answers null for a key that is not stored or has expired
RedisNull == [value |-> "null", ex |-> 0]

\* the entry written by redis.set(key, data, { ex })
RedisEntry(data, ex) == [value |-> data, ex |-> ex]

IdleRequest ==
    [ pc |-> "idle", key |-> NoData, redis |-> FALSE, data |-> NoData,
      status |-> 0, body |-> NoData, warm |-> FALSE, redisFailed |-> FALSE,
      fetcherThrew |-> FALSE ]

CacheIdle ==
    /\ redisEnv = FALSE
    /\ supabaseEnv = FALSE
    /\ redisClient = FALSE
    /\ store = [k \in CacheKeys |-> RedisNull]
    /\ req = [r \in Requests |-> IdleRequest]
    /\ fetches = [k \in CacheKeys |-> 0]
    /\ answered = {}
    /\ handled = 0

\* getRedis(): the client, or null without the credentials
getRedis == redisEnv

\* err.message of what the handler can catch
SupabaseEnvError == "Missing Supabase env vars"
RpcError == "get_games_for_dashboard error"
RedisError == "Redis timeout"

\* the handler's catch block: status 500, { ok: false, error: err.message }
Respond500(q, message) ==
    [q EXCEPT !.pc = "done", !.status = 500, !.body = message]

\* res.end(JSON.stringify({ success: true, count, data }))
Respond200(q, data) == [q EXCEPT !.pc = "done", !.status = 200, !.body = data]

\* line 80: const data = await fetcher()
CallFetcher(q) == [q EXCEPT !.pc = "fetching"]

\* cacheGetSet up to its first await
EnterCacheGetSet(q) ==
    IF ~q.redis THEN CallFetcher(q)
    ELSE [q EXCEPT !.pc = "get"]

\* a failed redis.get escapes cacheGetSet and reaches the handler's catch
OnGetFailure_rethrow(q) ==
    Respond500([q EXCEPT !.redisFailed = TRUE], RedisError)

\* lines 75-80: the catch logs the redis.get failure, then the fetcher runs
OnGetFailure(q) == CallFetcher([q EXCEPT !.redisFailed = TRUE])

\* the answer of redis.get is not looked at
OnGetAnswer_alwaysFetch(q, hit) == CallFetcher(q)

\* lines 70-74 and 79-80 with the answer of redis.get
OnGetAnswer(q, hit) ==
    IF hit # RedisNull.value THEN Respond200(q, hit)
    ELSE CallFetcher(q)

\* lines 80-93 with the data of the fetcher; without Redis, line 56
OnFetched(q, data) ==
    IF ~q.redis THEN Respond200([q EXCEPT !.data = data], data)
    ELSE [q EXCEPT !.pc = "set", !.data = data]

\* a fetcher error is swallowed and an empty list is cached and answered
OnFetcherError_cachesEmpty(q) ==
    IF ~q.redis THEN Respond200([q EXCEPT !.data = "[]"], "[]")
    ELSE [q EXCEPT !.pc = "set", !.data = "[]"]

\* line 80 and lines 196-204: the error of the fetcher leaves cacheGetSet
\* and reaches the handler's catch
OnFetcherError(q) == Respond500(q, RpcError)

\* lines 93-99 once redis.set has answered (failed = FALSE), or has rejected
\* or timed out (failed = TRUE, caught at line 95)
OnSetDone(q, failed) ==
    Respond200([q EXCEPT !.redisFailed = @ \/ failed], q.data)

\* fetcher calls per key, after request r moved from q to next
CountFetch(q, next) ==
    IF next.pc = "fetching" /\ q.pc # "fetching"
    THEN [fetches EXCEPT ![next.key] = @ + 1]
    ELSE fetches

\* keys answered with status 200
CountAnswer(next) ==
    IF next.pc = "done" /\ next.status = 200
    THEN answered \cup {next.key}
    ELSE answered

Step(r, next) ==
    /\ req' = [req EXCEPT ![r] = next]
    /\ fetches' = CountFetch(req[r], next)
    /\ answered' = CountAnswer(next)

\* module.exports for /api/games, up to the first await of cacheGetSet
HandleRequest(r, key) ==
    /\ req[r].pc = "idle"
    /\ handled < MaxRequests
    /\ handled' = handled + 1
    /\ redisClient' = (redisClient \/ getRedis)
    /\ LET q == [req[r] EXCEPT !.key = key, !.redis = getRedis,
                               !.warm = (key \in answered)]
       IN  IF ~supabaseEnv
           THEN Step(r, Respond500(q, SupabaseEnvError))  \* getSupabase() throws
           ELSE Step(r, EnterCacheGetSet(q))
    /\ UNCHANGED <<oddsVars, metricsVars, serverVars, mapperVars, converterVars, resolverVars, redisEnv, supabaseEnv, store>>

\* redis.get(key) answers before the timeout
GetAnswers(r) ==
    /\ req[r].pc = "get"
    /\ Step(r, OnGetAnswer(req[r], store[req[r].key].value))
    /\ UNCHANGED <<oddsVars, metricsVars, serverVars, mapperVars, converterVars, resolverVars, redisEnv, supabaseEnv, redisClient,
                   store, handled>>

\* redis.get(key) rejects
GetRejects(r) ==
    /\ req[r].pc = "get"
    /\ Step(r, OnGetFailure(req[r]))
    /\ UNCHANGED <<oddsVars, metricsVars, serverVars, mapperVars, converterVars, resolverVars, redisEnv, supabaseEnv, redisClient,
                   store, handled>>

\* redis.get has not answered after 5000 ms: the timer of redisTimeout
\* rejects first
GetTimesOut(r) ==
    /\ req[r].pc = "get"
    /\ Step(r, OnGetFailure(req[r]))
    /\ UNCHANGED <<oddsVars, metricsVars, serverVars, mapperVars, converterVars, resolverVars, redisEnv, supabaseEnv, redisClient,
                   store, handled>>

\* the RPC returns rows (or null, which the fetcher turns into [])
FetcherReturns(r, data) ==
    /\ req[r].pc = "fetching"
    /\ Step(r, OnFetched(req[r], data))
    /\ UNCHANGED <<oddsVars, metricsVars, serverVars, mapperVars, converterVars, resolverVars, redisEnv, supabaseEnv, redisClient,
                   store, handled>>

\* the RPC returns an error: the fetcher throws, the handler answers 500
FetcherThrows(r) ==
    /\ req[r].pc = "fetching"
    /\ Step(r, OnFetcherError([req[r] EXCEPT !.fetcherThrew = TRUE]))
    /\ UNCHANGED <<oddsVars, metricsVars, serverVars, mapperVars, converterVars, resolverVars, redisEnv, supabaseEnv, redisClient,
                   store, handled>>

\* redis.set(key, data, { ex: ttlSeconds }) answers before the timeout
SetAnswers(r) ==
    /\ req[r].pc = "set"
    /\ store' = [store EXCEPT ![req[r].key] = RedisEntry(req[r].data, ttlSeconds)]
    /\ Step(r, OnSetDone(req[r], FALSE))
    /\ UNCHANGED <<oddsVars, metricsVars, serverVars, mapperVars, converterVars, resolverVars, redisEnv, supabaseEnv, redisClient,
                   handled>>

\* redis.set rejects
SetRejects(r) ==
    /\ req[r].pc = "set"
    /\ Step(r, OnSetDone(req[r], TRUE))
    /\ UNCHANGED <<oddsVars, metricsVars, serverVars, mapperVars, converterVars, resolverVars, redisEnv, supabaseEnv, redisClient,
                   store, handled>>

\* redis.set has not answered after 5000 ms: the timer rejects first; the
\* write itself may or may not have reached Redis
SetTimesOut(r) ==
    /\ req[r].pc = "set"
    /\ \E written \in BOOLEAN :
          store' = IF written
                   THEN [store EXCEPT ![req[r].key] =
                                          RedisEntry(req[r].data, ttlSeconds)]
                   ELSE store
    /\ Step(r, OnSetDone(req[r], TRUE))
    /\ UNCHANGED <<oddsVars, metricsVars, serverVars, mapperVars, converterVars, resolverVars, redisEnv, supabaseEnv, redisClient,
                   handled>>

\* the response has been sent; the handler slot is free again
Finish(r) ==
    /\ req[r].pc = "done"
    /\ req' = [req EXCEPT ![r] = IdleRequest]
    /\ UNCHANGED <<oddsVars, metricsVars, serverVars, mapperVars, converterVars, resolverVars, redisEnv, supabaseEnv, redisClient,
                   store, fetches, answered, handled>>

\* ttlSeconds elapse with no request waiting for Redis: every entry with
\* ex <= ttlSeconds has expired, and every earlier fetch and answer lies
\* outside the validity window
TtlElapses ==
    /\ \A r \in Requests : req[r].pc \notin {"get", "set"}
    /\ handled > 0
    /\ store' = [k \in CacheKeys |->
                    IF store[k].ex <= ttlSeconds THEN RedisNull ELSE store[k]]
    /\ fetches' = [k \in CacheKeys |-> 0]
    /\ answered' = {}
    /\ handled' = 0
    /\ req' = [r \in Requests |-> [req[r] EXCEPT !.warm = FALSE]]
    /\ UNCHANGED <<oddsVars, metricsVars, serverVars, mapperVars, converterVars, resolverVars, redisEnv, supabaseEnv, redisClient>>

CacheInit ==
    /\ OddsIdle
    /\ MetricsIdle
    /\ ServerIdle
    /\ MapperIdle
    /\ ConverterIdle
    /\ ResolverIdle
    /\ redisEnv \in BOOLEAN
    /\ supabaseEnv \in BOOLEAN
    /\ redisClient = FALSE
    /\ store = [k \in CacheKeys |-> RedisNull]
    /\ req = [r \in Requests |-> IdleRequest]
    /\ fetches = [k \in CacheKeys |-> 0]
    /\ answered = {}
    /\ handled = 0

CacheNext ==
    \/ \E r \in Requests, key \in CacheKeys : HandleRequest(r, key)
    \/ \E r \in Requests : GetAnswers(r)
    \/ \E r \in Requests : GetRejects(r)
    \/ \E r \in Requests : GetTimesOut(r)
    \/ \E r \in Requests, data \in FetchedData : FetcherReturns(r, data)
    \/ \E r \in Requests : FetcherThrows(r)
    \/ \E r \in Requests : SetAnswers(r)
    \/ \E r \in Requests : SetRejects(r)
    \/ \E r \in Requests : SetTimesOut(r)
    \/ \E r \in Requests : Finish(r)
    \/ TtlElapses

CacheSpec == CacheInit /\ [][CacheNext]_vars

\* the timers of redisTimeout fire, the RPC of the fetcher completes, and
\* the response is sent; Redis itself need never answer
CacheFairness ==
    \A r \in Requests :
        /\ WF_vars(GetTimesOut(r))
        /\ WF_vars(SetTimesOut(r))
        /\ WF_vars(\E data \in FetchedData : FetcherReturns(r, data))
        /\ WF_vars(Finish(r))

CacheFairSpec == CacheSpec /\ CacheFairness

----------------------------------------------------------------------------
(* The odds utilities applied to bounded inputs *)

MaxCandidates == 4

\* moneylines: valid American odds, magnitudes below 100, and 0
MoneylineValues == {-200, -150, -110, -100, -50, 0, 50, 100, 120, 150}

MlArguments ==
    {NULL, UNDEFINED, EMPTYSTR, TEXT, NAN, POSINF, NEGINF}
        \cup {Num(i) : i \in MoneylineValues}

CandidateValues ==
    {NULL, POSINF} \cup {Num(i) : i \in {-110, -100, 0, 100, 120, 150}}

CandidateLists ==
    UNION {[1..n -> CandidateValues] : n \in 0..MaxCandidates}

OddsInit ==
    /\ \/ mlIn \in MlArguments /\ candsIn = <<>>
       \/ mlIn = NULL /\ candsIn \in CandidateLists
    /\ decimalOut = UNSET
    /\ probOut = UNSET
    /\ bestOut = UnsetBest
    /\ MetricsIdle
    /\ CacheIdle
    /\ ServerIdle
    /\ MapperIdle
    /\ ConverterIdle
    /\ ResolverIdle

CallMoneylineToDecimal ==
    /\ decimalOut = UNSET
    /\ decimalOut' = moneylineToDecimal(mlIn)
    /\ UNCHANGED <<mlIn, candsIn, probOut, bestOut, metricsVars, cacheVars, serverVars, mapperVars, converterVars, resolverVars>>

CallImpliedProbability ==
    /\ probOut = UNSET
    /\ probOut' = impliedProbabilityFromMoneyline(mlIn)
    /\ UNCHANGED <<mlIn, candsIn, decimalOut, bestOut, metricsVars, cacheVars, serverVars, mapperVars, converterVars, resolverVars>>

CallSelectBest ==
    /\ bestOut = UnsetBest
    /\ bestOut' = selectBestMoneyline(candsIn)
    /\ UNCHANGED <<mlIn, candsIn, decimalOut, probOut, metricsVars, cacheVars, serverVars, mapperVars, converterVars, resolverVars>>

OddsNext ==
    \/ CallMoneylineToDecimal
    \/ CallImpliedProbability
    \/ CallSelectBest

OddsSpec == OddsInit /\ [][OddsNext]_vars

----------------------------------------------------------------------------
(* Claims on the odds utilities *)

\* the cases in which the contract asks for null: ml == 0, null, not supplied,
\* non-finite
InvalidMoneyline(ml) ==
    ml \in {NULL, UNDEFINED, NAN, POSINF, NEGINF, Num(0)}

\* C1: moneylineToDecimal returns ml/100 + 1 for ml > 0, 100/|ml| + 1 for
\* ml < 0, and null for ml == 0, ml null or not supplied, or ml non-finite;
\* it never returns a non-finite number.
C1_MoneylineToDecimalGuarded ==
    decimalOut # UNSET =>
        /\ (mlIn.t = "num" /\ mlIn.n > 0) =>
                decimalOut = Rat(mlIn.n + 100, 100)
        /\ (mlIn.t = "num" /\ mlIn.n < 0) =>
                decimalOut = Rat(100 + AbsInt(mlIn.n), AbsInt(mlIn.n))
        /\ InvalidMoneyline(mlIn) => decimalOut = NULL
        /\ decimalOut.t \in {"null", "num"}

\* C2: impliedProbabilityFromMoneyline returns 100/(ml+100) for ml > 0,
\* |ml|/(|ml|+100) for ml < 0, null for null or non-finite input, and every
\* non-null result lies strictly between 0 and 1.
C2_ImpliedProbabilityInUnitInterval ==
    probOut # UNSET =>
        /\ (mlIn.t = "num" /\ mlIn.n > 0) =>
                probOut = Rat(100, mlIn.n + 100)
        /\ (mlIn.t = "num" /\ mlIn.n < 0) =>
                probOut = Rat(AbsInt(mlIn.n), AbsInt(mlIn.n) + 100)
        /\ mlIn \in {NULL, UNDEFINED, NAN, POSINF, NEGINF} => probOut = NULL
        /\ probOut # NULL =>
                /\ probOut.t = "num"
                /\ 0 < probOut.n
                /\ probOut.n < probOut.d

\* the positions of candsIn that hold a finite number
Survivors == {i \in DOMAIN candsIn : candsIn[i].t = "num"}

\* C6: selectBestMoneyline ignores null and non-finite candidates and
\* returns the {value, decimal} pair of the first candidate, in input order,
\* whose decimal odds are maximal; with no candidate left it returns
\* {value: null, decimal: null}.
C6_SelectBestFirstMaximal ==
    bestOut # UnsetBest =>
        IF Survivors = {} THEN bestOut = Best(NULL, NULL)
        ELSE \E i \in Survivors :
                /\ bestOut = Best(candsIn[i], moneylineToDecimal(candsIn[i]))
                /\ \A j \in Survivors :
                        ~JsLess(bestOut.decimal, moneylineToDecimal(candsIn[j]))
                /\ \A j \in Survivors :
                        j < i => JsLess(moneylineToDecimal(candsIn[j]),
                                        bestOut.decimal)

\* C6 witness: [-110, 150, null, 120] picks 150 with decimal 2.5
C6_Witness ==
    /\ candsIn = <<Num(-110), Num(150), NULL, Num(120)>>
    /\ bestOut = Best(Num(150), Rat(5, 2))

----------------------------------------------------------------------------
(* computeNFLMetrics applied to bounded game records *)

\* a game record with no market data at all
BaseGame ==
    [ id |-> Num(1),
      spreadHistory |-> EmptyHistory,
      totalHistory |-> EmptyHistory,
      homeMoneylineHistory |-> EmptyHistory,
      awayMoneylineHistory |-> EmptyHistory,
      spreadOddsHistory |-> EmptyHistory,
      totalOverOddsHistory |-> EmptyHistory,
      totalUnderOddsHistory |-> EmptyHistory,
      openingSpread |-> UNDEFINED,
      spread |-> UNDEFINED,
      openingOverUnder |-> UNDEFINED,
      overUnder |-> UNDEFINED,
      homeMoneylineOpen |-> UNDEFINED,
      homeMoneyline |-> UNDEFINED,
      homeMoneylineMin |-> UNDEFINED,
      homeMoneylineMax |-> UNDEFINED,
      awayMoneylineOpen |-> UNDEFINED,
      awayMoneyline |-> UNDEFINED,
      awayMoneylineMin |-> UNDEFINED,
      awayMoneylineMax |-> UNDEFINED,
      homeLineOddsOpen |-> UNDEFINED,
      homeLineOddsClose |-> UNDEFINED,
      totalScoreOverOpen |-> UNDEFINED,
      totalScoreOverClose |-> UNDEFINED,
      totalScoreUnderOpen |-> UNDEFINED,
      totalScoreUnderClose |-> UNDEFINED,
      homeLineMin |-> UNDEFINED,
      homeLineMax |-> UNDEFINED,
      totalScoreMin |-> UNDEFINED,
      totalScoreMax |-> UNDEFINED ]

\* a game whose moneylines are given in the nested moneylineHistory
NestedMlGame(home, away) ==
    [BaseGame EXCEPT !.homeMoneylineHistory = home,
                     !.awayMoneylineHistory = away]

\* a game whose moneylines are given in the flat fields
FlatMlGame(home, away) ==
    [BaseGame EXCEPT !.homeMoneylineOpen = home.open,
                     !.homeMoneyline = home.close,
                     !.homeMoneylineMin = home.min,
                     !.homeMoneylineMax = home.max,
                     !.awayMoneylineOpen = away.open,
                     !.awayMoneyline = away.close,
                     !.awayMoneylineMin = away.min,
                     !.awayMoneylineMax = away.max]

\* opening and closing moneylines: missing, 0, magnitudes below 100,
\* favourites and underdogs
MlOpenCloseValues ==
    {UNDEFINED} \cup {Num(i) : i \in {-200, -50, 0, 50, 100, 110, 150}}

\* lowest and highest moneyline seen in the window
MlExtremeValues == {UNDEFINED, Num(120)}

MlLayouts == {"nested", "flat"}

MlGame(layout, home, away) ==
    IF layout = "nested" THEN NestedMlGame(home, away)
    ELSE FlatMlGame(home, away)

\* a game whose spread is given in spreadHistory.home; min and max are only
\* read there
NestedSpreadGame(spread) == [BaseGame EXCEPT !.spreadHistory = spread]

\* a game whose spread is given in the flat fields openingSpread and spread
FlatSpreadGame(spread) ==
    [BaseGame EXCEPT !.openingSpread = spread.open,
                     !.spread = spread.close,
                     !.spreadHistory =
                         Quote(UNDEFINED, UNDEFINED, spread.min, spread.max)]

\* a game whose spread is given in flat fields only, the lowest and highest
\* spread under the names of the converted rows
FlatRowSpreadGame(spread) ==
    [BaseGame EXCEPT !.openingSpread = spread.open,
                     !.spread = spread.close,
                     !.homeLineMin = spread.min,
                     !.homeLineMax = spread.max]

LineLayouts == {"nested", "flat", "flatRow"}

SpreadGame(layout, spread) ==
    CASE layout = "nested" -> NestedSpreadGame(spread)
      [] layout = "flat" -> FlatSpreadGame(spread)
      [] layout = "flatRow" -> FlatRowSpreadGame(spread)

NestedTotalGame(total) == [BaseGame EXCEPT !.totalHistory = total]

FlatTotalGame(total) ==
    [BaseGame EXCEPT !.openingOverUnder = total.open,
                     !.overUnder = total.close,
                     !.totalHistory =
                         Quote(UNDEFINED, UNDEFINED, total.min, total.max)]

FlatRowTotalGame(total) ==
    [BaseGame EXCEPT !.openingOverUnder = total.open,
                     !.overUnder = total.close,
                     !.totalScoreMin = total.min,
                     !.totalScoreMax = total.max]

TotalGame(layout, total) ==
    CASE layout = "nested" -> NestedTotalGame(total)
      [] layout = "flat" -> FlatTotalGame(total)
      [] layout = "flatRow" -> FlatRowTotalGame(total)

\* opening and closing spreads: missing, '', favourites, pick'em, underdog
SpreadValues ==
    { UNDEFINED, EMPTYSTR, Num(-7), Num(-3), Rat(-17, 5), Rat(-1, 2),
      Num(0), Num(2) }

\* lowest and highest spread of the window: <<min, max>>
SpreadExtremes ==
    { <<UNDEFINED, UNDEFINED>>, <<UNDEFINED, Num(-3)>>,
      <<Num(-7), Num(-3)>>, <<Num(-3), Num(-7)>> }

\* opening and closing totals: missing, not numeric, not finite, numbers
TotalValues ==
    { UNDEFINED, TEXT, POSINF, Num(45), Rat(93, 2), Num(47) }

TotalExtremes ==
    { <<UNDEFINED, UNDEFINED>>, <<Num(45), NULL>>,
      <<Num(45), Num(47)>>, <<Num(47), Num(45)>> }

\* a game in which every detector fires
AllSignalsGame ==
    [BaseGame EXCEPT !.id = Num(2),
                     !.spreadHistory = Quote(Num(-7), Num(-3), Num(-7), Num(-3)),
                     !.totalHistory = Quote(Num(45), Num(47), Num(45), Num(47)),
                     !.homeMoneylineHistory =
                         Quote(Num(100), Num(150), UNDEFINED, UNDEFINED),
                     !.awayMoneylineHistory =
                         Quote(Num(110), Num(110), UNDEFINED, UNDEFINED)]

\* a game whose market fields hold '', text, Infinity and NaN
MalformedGame ==
    [BaseGame EXCEPT !.id = Num(3),
                     !.spreadHistory = Quote(TEXT, Num(-3), EMPTYSTR, NAN),
                     !.totalHistory = Quote(POSINF, Num(47), TEXT, Num(47)),
                     !.homeMoneylineHistory = Quote(TEXT, TEXT, NAN, POSINF),
                     !.awayMoneylineHistory =
                         Quote(EMPTYSTR, EMPTYSTR, EMPTYSTR, EMPTYSTR),
                     !.openingSpread = TEXT,
                     !.overUnder = NEGINF]

\* a game with a quiet market
QuietGame ==
    [BaseGame EXCEPT !.id = Num(4),
                     !.spreadHistory = Quote(Num(-3), Rat(-17, 5), Num(-3), Num(-3)),
                     !.totalHistory = Quote(Num(45), Rat(93, 2), Num(45), Num(47)),
                     !.homeMoneylineHistory =
                         Quote(Num(-110), Num(-110), UNDEFINED, UNDEFINED),
                     !.awayMoneylineHistory =
                         Quote(Num(-110), Num(-110), UNDEFINED, UNDEFINED)]

SampleGames == {BaseGame, AllSignalsGame, MalformedGame, QuietGame}

\* the longest batch
MaxBatch == 3

RECURSIVE Batches(_)
\* the batches of n sample games
Batches(n) ==
    IF n = 0 THEN {<<>>}
    ELSE {Append(b, g) : b \in Batches(n - 1), g \in SampleGames}

MetricsInit ==
    /\ OddsIdle
    /\ \/ \E layout \in MlLayouts :
          \E ho \in MlOpenCloseValues, hc \in MlOpenCloseValues :
          \E ao \in MlOpenCloseValues, ac \in MlOpenCloseValues :
          \E hmn \in MlExtremeValues, hmx \in MlExtremeValues :
          \E amn \in MlExtremeValues, amx \in MlExtremeValues :
             games = <<MlGame(layout, Quote(ho, hc, hmn, hmx),
                                      Quote(ao, ac, amn, amx))>>
       \/ \E layout \in LineLayouts :
          \E so \in SpreadValues, sc \in SpreadValues :
          \E sx \in SpreadExtremes :
             games = <<SpreadGame(layout, Quote(so, sc, sx[1], sx[2]))>>
       \/ \E layout \in LineLayouts :
          \E to \in TotalValues, tc \in TotalValues :
          \E tx \in TotalExtremes :
             games = <<TotalGame(layout, Quote(to, tc, tx[1], tx[2]))>>
       \/ \E n \in 1..MaxBatch : games \in Batches(n)
    /\ decorated = <<>>
    /\ CacheIdle
    /\ ServerIdle
    /\ MapperIdle
    /\ ConverterIdle
    /\ ResolverIdle

CallComputeNFLMetrics ==
    /\ games # <<>>
    /\ decorated = <<>>
    /\ decorated' = computeNFLMetrics(games)
    /\ UNCHANGED <<oddsVars, games, cacheVars, serverVars, mapperVars, converterVars, resolverVars>>

MetricsNext == CallComputeNFLMetrics

MetricsSpec == MetricsInit /\ [][MetricsNext]_vars

----------------------------------------------------------------------------
(* Claims on computeNFLMetrics *)

HasSignal(record, tag) ==
    \E j \in DOMAIN record.signals : record.signals[j] = tag

\* the shift the contract asks for: (P(close) - P(open)) * 100 when both
\* moneylines are present, null when either is missing
ShiftAsClaimed(open, close) ==
    IF open # NULL /\ close # NULL
    THEN JsMul(JsSub(impliedProbabilityFromMoneyline(close),
                     impliedProbabilityFromMoneyline(open)), Num(100))
    ELSE NULL

\* C3: homeProbabilityShift and awayProbabilityShift equal
\* (impliedProbability(close) - impliedProbability(open)) * 100 when the open
\* and the close moneyline of the side are both present, and are null
\* whenever the open or the close moneyline of the side is missing.
C3_ProbabilityShiftNullPropagating ==
    \A i \in DOMAIN decorated :
        LET d == decorated[i]
        IN  /\ d.homeProbabilityShift =
                   ShiftAsClaimed(d.homeMoneylineOpen, d.homeMoneylineClose)
            /\ d.awayProbabilityShift =
                   ShiftAsClaimed(d.awayMoneylineOpen, d.awayMoneylineClose)

\* |shift|, a missing shift counting as 0
AbsOrZero(shift) == IF shift = NULL THEN Num(0) ELSE JsAbs(shift)

\* C4: ML STEAM is tagged iff the larger of |homeShift| and |awayShift| is
\* >= 5 percentage points, a missing shift counting as 0; when each side
\* lacks its open or its close moneyline ML STEAM is not tagged.
C4_MlSteamIffShiftAtLeastFive ==
    \A i \in DOMAIN decorated :
        LET d == decorated[i]
            larger == JsMax(AbsOrZero(d.homeProbabilityShift),
                            AbsOrZero(d.awayProbabilityShift))
            homeMissing == d.homeMoneylineOpen = NULL \/ d.homeMoneylineClose = NULL
            awayMissing == d.awayMoneylineOpen = NULL \/ d.awayMoneylineClose = NULL
        IN  /\ HasSignal(d, "ML STEAM") <=> JsGeq(larger, Num(5))
            /\ (homeMissing /\ awayMissing) => ~HasSignal(d, "ML STEAM")

\* the decimal prices of the moneylines of one side that are present
SideDecimals(open, close, min, max) ==
    {moneylineToDecimal(ml) : ml \in {open, close, min, max} \ {NULL}}

\* best is the highest of the decimals, null when there is none
IsBestDecimal(best, decimals) ==
    IF decimals = {} THEN best = NULL
    ELSE best \in decimals /\ \A x \in decimals : ~JsLess(best, x)

\* C5: bestHome and bestAway are the best decimal prices of each side among
\* {open, close, min, max}; arbProfit = (1 - inverseSum) * 100 and ARB is
\* tagged iff both bests exist and inverseSum = 1/bestHome + 1/bestAway is
\* strictly less than 1; otherwise arbProfit is null and ARB is absent.
C5_ArbitrageIffInverseSumBelowOne ==
    \A i \in DOMAIN decorated :
        LET d == decorated[i]
            bestHome == d.bestHomeMoneylineDecimal
            bestAway == d.bestAwayMoneylineDecimal
            inverseSum == JsAdd(JsDiv(Num(1), bestHome), JsDiv(Num(1), bestAway))
        IN  /\ IsBestDecimal(bestHome,
                   SideDecimals(d.homeMoneylineOpen, d.homeMoneylineClose,
                                d.homeMoneylineMin, d.homeMoneylineMax))
            /\ IsBestDecimal(bestAway,
                   SideDecimals(d.awayMoneylineOpen, d.awayMoneylineClose,
                                d.awayMoneylineMin, d.awayMoneylineMax))
            /\ IF bestHome # NULL /\ bestAway # NULL /\ JsLess(inverseSum, Num(1))
               THEN /\ d.arbProfit = JsMul(JsSub(Num(1), inverseSum), Num(100))
                    /\ HasSignal(d, "ARB")
               ELSE /\ d.arbProfit = NULL
                    /\ ~HasSignal(d, "ARB")

\* C5 witness: both sides best at +110 (decimal 2.1): ARB with 100/21 = 4.76..;
\* and a game with both sides at -200 (decimal 1.5) has no ARB
C5_Witness ==
    /\ decorated # <<>>
    /\ decorated[1].bestHomeMoneylineDecimal = Rat(21, 10)
    /\ decorated[1].bestAwayMoneylineDecimal = Rat(21, 10)
    /\ decorated[1].arbProfit = Rat(100, 21)
    /\ HasSignal(decorated[1], "ARB")

\* |x| >= bound for a number x that is present
AtLeast(x, bound) == x # NULL /\ ~JsLess(JsAbs(x), bound)

\* C11: SPREAD STEAM is tagged iff lineMove is present and |lineMove| >= 2.5,
\* the threshold included.
C11_SpreadSteamIffMoveAtLeastTwoAndHalf ==
    \A i \in DOMAIN decorated :
        LET d == decorated[i]
        IN  HasSignal(d, "SPREAD STEAM") <=> AtLeast(d.lineMove, Rat(5, 2))

\* C11 witness: a spread that moved from -3 to -0.5, exactly 2.5 points,
\* tagged SPREAD STEAM
C11_Witness ==
    /\ decorated # <<>>
    /\ decorated[1].spreadOpen = Num(-3)
    /\ decorated[1].spreadClose = Rat(-1, 2)
    /\ decorated[1].lineMove = Rat(5, 2)
    /\ HasSignal(decorated[1], "SPREAD STEAM")

\* C12: REVERSE is tagged iff spreadOpen and spreadClose are both present and
\* either spreadOpen < 0 and spreadClose > spreadOpen, or spreadOpen > 0 and
\* spreadClose < spreadOpen; it is never tagged when spreadOpen = 0, when
\* spreadOpen = spreadClose, or when one of the two is missing.
C12_ReverseRule ==
    \A i \in DOMAIN decorated :
        LET d == decorated[i]
            open == d.spreadOpen
            close == d.spreadClose
            rule == /\ open # NULL
                    /\ close # NULL
                    /\ \/ JsLess(open, Num(0)) /\ JsLess(open, close)
                       \/ JsLess(Num(0), open) /\ JsLess(close, open)
        IN  /\ HasSignal(d, "REVERSE") <=> rule
            /\ (open = NULL \/ close = NULL \/ open = Num(0) \/ open = close)
                   => ~HasSignal(d, "REVERSE")

\* C12 witness: -7 to -3 is tagged REVERSE
C12_Witness ==
    /\ decorated # <<>>
    /\ decorated[1].spreadOpen = Num(-7)
    /\ decorated[1].spreadClose = Num(-3)
    /\ HasSignal(decorated[1], "REVERSE")

\* C13: TOTAL STEAM is tagged iff totalMove is present and |totalMove| >= 2,
\* the threshold included; a spread move of exactly 2 is not SPREAD STEAM.
C13_TotalSteamIffMoveAtLeastTwo ==
    \A i \in DOMAIN decorated :
        LET d == decorated[i]
        IN  /\ HasSignal(d, "TOTAL STEAM") <=> AtLeast(d.totalMove, Num(2))
            /\ d.lineMove \in {Num(2), Num(-2)} => ~HasSignal(d, "SPREAD STEAM")

\* C13 witness: a total that moved from 45 to 47, exactly 2 points, tagged
\* TOTAL STEAM
C13_Witness ==
    /\ decorated # <<>>
    /\ decorated[1].totalOpen = Num(45)
    /\ decorated[1].totalClose = Num(47)
    /\ decorated[1].totalMove = Num(2)
    /\ HasSignal(decorated[1], "TOTAL STEAM")

\* C14: clv = -(spreadClose - spreadOpen) when lineMove is present, and clv
\* is null exactly when lineMove is null.
C14_ClvIsNegatedLineMove ==
    \A i \in DOMAIN decorated :
        LET d == decorated[i]
        IN  IF d.lineMove = NULL THEN d.clv = NULL
            ELSE /\ d.clv # NULL
                 /\ d.clv = JsSub(d.spreadOpen, d.spreadClose)
                 /\ JsAdd(d.clv, d.lineMove) = Num(0)

\* C14 witness: -7 to -3 gives lineMove 4 and clv -4
C14_Witness ==
    /\ decorated # <<>>
    /\ decorated[1].lineMove = Num(4)
    /\ decorated[1].clv = Num(-4)

\* the order in which the detectors run
SignalOrder == <<"SPREAD STEAM", "REVERSE", "TOTAL STEAM", "ML STEAM", "ARB">>

Rank(tag) == CHOOSE k \in DOMAIN SignalOrder : SignalOrder[k] = tag

\* C15: signals is a list that is a subsequence of SignalOrder (same
\* relative order, no tag twice), and is empty when no condition holds.
C15_SignalsOrderedWithoutDuplicates ==
    \A i \in DOMAIN decorated :
        LET d == decorated[i]
            sig == d.signals
            quiet == /\ ~AtLeast(d.lineMove, Rat(5, 2))
                     /\ ~HasSignal(d, "REVERSE")
                     /\ ~AtLeast(d.totalMove, Num(2))
                     /\ ~AtLeast(d.moneylineSteam, Num(5))
                     /\ d.arbProfit = NULL
        IN  /\ \A j \in DOMAIN sig : \E k \in DOMAIN SignalOrder : sig[j] = SignalOrder[k]
            /\ \A j, k \in DOMAIN sig : j < k => Rank(sig[j]) < Rank(sig[k])
            /\ quiet => sig = <<>>

\* C15 witness: a game with all five tags, in order
C15_Witness ==
    \E i \in DOMAIN decorated : decorated[i].signals = SignalOrder

\* a component of the volatility sum, a missing one counting as 0
OrZero(x) == IF x = NULL THEN Num(0) ELSE x

\* max(x, 0)
Positive(x) == IF JsLess(x, Num(0)) THEN Num(0) ELSE x

\* the market inputs of a decorated record
MarketInputs(d) ==
    { d.spreadOpen, d.spreadClose, d.spreadMin, d.spreadMax,
      d.totalOpen, d.totalClose, d.totalMin, d.totalMax,
      d.homeMoneylineOpen, d.homeMoneylineClose, d.homeMoneylineMin,
      d.homeMoneylineMax, d.awayMoneylineOpen, d.awayMoneylineClose,
      d.awayMoneylineMin, d.awayMoneylineMax }

\* C16: volatilityScore = |lineMove| + max(spreadRange, 0) * 0.5
\* + |totalMove| * 0.5 + max(totalRange, 0) * 0.25 + maxProbShift / 5,
\* rounded to 2 decimals, a missing component counting as 0; it is finite
\* and >= 0, and it is 0 when no market input is present.
C16_VolatilityScoreFormula ==
    \A i \in DOMAIN decorated :
        LET d == decorated[i]
            sum == JsAdd(JsAdd(JsAdd(JsAdd(
                       JsAbs(OrZero(d.lineMove)),
                       JsDiv(Positive(OrZero(d.spreadRange)), Num(2))),
                       JsDiv(JsAbs(OrZero(d.totalMove)), Num(2))),
                       JsDiv(Positive(OrZero(d.totalRange)), Num(4))),
                       JsDiv(d.moneylineSteam, Num(5)))
        IN  /\ d.volatilityScore = ToFixed2(sum)
            /\ IsFinite(d.volatilityScore)
            /\ ~JsLess(d.volatilityScore, Num(0))
            /\ MarketInputs(d) = {NULL} => d.volatilityScore = Num(0)

\* C16 witness: lowest spread above the highest (range -4) with a line move
\* of 4: the score is 4
C16_Witness ==
    /\ decorated # <<>>
    /\ decorated[1].lineMove = Num(4)
    /\ decorated[1].spreadRange = Num(-4)
    /\ decorated[1].volatilityScore = Num(4)

\* a field derived from two inputs is null when one of them is missing
NullWhenMissing(derived, a, b) == (a = NULL \/ b = NULL) => derived = NULL

\* C17: a batch of N games yields N decorated records in the same order,
\* each the record its game yields on its own; a market field that is
\* missing or malformed only makes the fields derived from it null and the
\* corresponding signal absent.
C17_DegradeToNull ==
    decorated # <<>> =>
        /\ Len(decorated) = Len(games)
        /\ \A i \in DOMAIN decorated :
              LET d == decorated[i]
              IN  /\ d.id = games[i].id
                  /\ d = computeNFLMetrics(<<games[i]>>)[1]
                  /\ NullWhenMissing(d.lineMove, d.spreadOpen, d.spreadClose)
                  /\ NullWhenMissing(d.clv, d.spreadOpen, d.spreadClose)
                  /\ NullWhenMissing(d.totalMove, d.totalOpen, d.totalClose)
                  /\ NullWhenMissing(d.spreadRange, d.spreadMin, d.spreadMax)
                  /\ NullWhenMissing(d.totalRange, d.totalMin, d.totalMax)
                  /\ NullWhenMissing(d.homeProbabilityShift,
                                     d.homeMoneylineOpen, d.homeMoneylineClose)
                  /\ NullWhenMissing(d.awayProbabilityShift,
                                     d.awayMoneylineOpen, d.awayMoneylineClose)
                  /\ d.lineMove = NULL =>
                         ~HasSignal(d, "SPREAD STEAM") /\ ~HasSignal(d, "REVERSE")
                  /\ d.totalMove = NULL => ~HasSignal(d, "TOTAL STEAM")
                  /\ (\/ d.homeMoneylineOpen = NULL
                      \/ d.homeMoneylineClose = NULL)
                     /\ (\/ d.awayMoneylineOpen = NULL
                         \/ d.awayMoneylineClose = NULL)
                         => ~HasSignal(d, "ML STEAM")
                  /\ (d.bestHomeMoneylineDecimal = NULL
                      \/ d.bestAwayMoneylineDecimal = NULL)
                         => d.arbProfit = NULL /\ ~HasSignal(d, "ARB")

\* C18: computeNFLMetrics leaves its input as it is, and every key of an
\* input game is a key of the decorated record.
C18_InputKeptAndKeysPreserved ==
    [][ /\ games' = games
        /\ Len(decorated') = Len(games)
        /\ \A i \in DOMAIN decorated' :
              DOMAIN games[i] \subseteq DOMAIN decorated'[i] ]_vars

\* C18 witness: a decorated game that still has the flat field openingSpread
\* it came with
C18_Witness ==
    /\ decorated # <<>>
    /\ games[1].openingSpread = Num(-7)
    /\ decorated[1].openingSpread = Num(-7)
    /\ decorated[1].spreadOpen = Num(-7)

\* later - earlier, null when one of the two is missing
DifferenceOrNull(later, earlier) ==
    IF later = NULL \/ earlier = NULL THEN NULL
    ELSE JsAdd(later, JsNeg(earlier))

\* C21: lineMove = spreadClose - spreadOpen, totalMove = totalClose -
\* totalOpen, spreadRange = spreadMax - spreadMin, totalRange = totalMax -
\* totalMin, each null iff one of its operands is null; with open = close
\* the move is 0 and SPREAD STEAM, REVERSE (spread) or TOTAL STEAM (total)
\* is not tagged.
C21_DeltasNullPropagating ==
    \A i \in DOMAIN decorated :
        LET d == decorated[i]
        IN  /\ d.lineMove = DifferenceOrNull(d.spreadClose, d.spreadOpen)
            /\ d.totalMove = DifferenceOrNull(d.totalClose, d.totalOpen)
            /\ d.spreadRange = DifferenceOrNull(d.spreadMax, d.spreadMin)
            /\ d.totalRange = DifferenceOrNull(d.totalMax, d.totalMin)
            /\ (d.lineMove = NULL) <=> (d.spreadOpen = NULL \/ d.spreadClose = NULL)
            /\ (d.totalMove = NULL) <=> (d.totalOpen = NULL \/ d.totalClose = NULL)
            /\ (d.spreadRange = NULL) <=> (d.spreadMin = NULL \/ d.spreadMax = NULL)
            /\ (d.totalRange = NULL) <=> (d.totalMin = NULL \/ d.totalMax = NULL)
            /\ (d.spreadOpen # NULL /\ d.spreadOpen = d.spreadClose) =>
                   /\ d.lineMove = Num(0)
                   /\ ~HasSignal(d, "SPREAD STEAM")
                   /\ ~HasSignal(d, "REVERSE")
            /\ (d.totalOpen # NULL /\ d.totalOpen = d.totalClose) =>
                   /\ d.totalMove = Num(0)
                   /\ ~HasSignal(d, "TOTAL STEAM")

\* C21 witness: a spread that opened and closed at -3 with only the highest
\* spread of the window known: lineMove 0, spreadRange null, no tag
C21_Witness ==
    /\ decorated # <<>>
    /\ decorated[1].spreadOpen = Num(-3)
    /\ decorated[1].spreadClose = Num(-3)
    /\ decorated[1].spreadMin = NULL
    /\ decorated[1].spreadMax = Num(-3)
    /\ decorated[1].lineMove = Num(0)
    /\ decorated[1].spreadRange = NULL
    /\ decorated[1].signals = <<>>

\* null or a finite number above 1
NullOrDecimalOdds(v) == v = NULL \/ (v.t = "num" /\ v.n > v.d)

\* C30: for any finite integer moneylines, 0 and magnitudes below 100
\* included, bestHomeMoneylineDecimal and bestAwayMoneylineDecimal are null
\* or finite and above 1, arbProfit is null or strictly between 0 and 100,
\* and a moneyline of 0 is never the best price and never makes ARB fire.
C30_PriceQualityWellFormed ==
    \A i \in DOMAIN decorated :
        LET d == decorated[i]
        IN  /\ NullOrDecimalOdds(d.bestHomeMoneylineDecimal)
            /\ NullOrDecimalOdds(d.bestAwayMoneylineDecimal)
            /\ \/ d.arbProfit = NULL
               \/ /\ d.arbProfit.t = "num"
                  /\ JsLess(Num(0), d.arbProfit)
                  /\ JsLess(d.arbProfit, Num(100))
            /\ d.bestHomeMoneyline # Num(0)
            /\ d.bestAwayMoneyline # Num(0)
            /\ HasSignal(d, "ARB") =>
                   /\ d.bestHomeMoneylineDecimal.t = "num"
                   /\ d.bestAwayMoneylineDecimal.t = "num"

\* the first of the values that is neither null nor undefined
RECURSIVE FirstPresent(_)
FirstPresent(values) ==
    IF values = <<>> THEN UNDEFINED
    ELSE IF Head(values).t \notin {"null", "undefined"} THEN Head(values)
    ELSE FirstPresent(Tail(values))

\* the value of a market field: nested history value, else the flat fields
Lookup(nested, flats) == toNumber(FirstPresent(<<nested>> \o flats))

\* C22: every market field the engine reads (open, min, max, close of the
\* spread, the total and both moneylines) is the nested history value when it
\* is present, otherwise the flat field of the game with the same meaning
\* (for close: the scalar spread, overUnder, homeMoneyline, awayMoneyline); a
\* value that is only given as a flat field is never ignored
C22_FieldLookupOrder ==
    \A i \in DOMAIN decorated :
        LET g == games[i]
            d == decorated[i]
        IN  /\ d.spreadOpen = Lookup(g.spreadHistory.open, <<g.openingSpread>>)
            /\ d.spreadClose = Lookup(g.spreadHistory.close, <<g.spread>>)
            /\ d.spreadMin = Lookup(g.spreadHistory.min, <<g.homeLineMin>>)
            /\ d.spreadMax = Lookup(g.spreadHistory.max, <<g.homeLineMax>>)
            /\ d.totalOpen = Lookup(g.totalHistory.open, <<g.openingOverUnder>>)
            /\ d.totalClose = Lookup(g.totalHistory.close, <<g.overUnder>>)
            /\ d.totalMin = Lookup(g.totalHistory.min, <<g.totalScoreMin>>)
            /\ d.totalMax = Lookup(g.totalHistory.max, <<g.totalScoreMax>>)
            /\ d.homeMoneylineOpen =
                   Lookup(g.homeMoneylineHistory.open, <<g.homeMoneylineOpen>>)
            /\ d.homeMoneylineClose =
                   Lookup(g.homeMoneylineHistory.close, <<g.homeMoneyline>>)
            /\ d.homeMoneylineMin =
                   Lookup(g.homeMoneylineHistory.min, <<g.homeMoneylineMin>>)
            /\ d.homeMoneylineMax =
                   Lookup(g.homeMoneylineHistory.max, <<g.homeMoneylineMax>>)
            /\ d.awayMoneylineOpen =
                   Lookup(g.awayMoneylineHistory.open, <<g.awayMoneylineOpen>>)
            /\ d.awayMoneylineClose =
                   Lookup(g.awayMoneylineHistory.close, <<g.awayMoneyline>>)
            /\ d.awayMoneylineMin =
                   Lookup(g.awayMoneylineHistory.min, <<g.awayMoneylineMin>>)
            /\ d.awayMoneylineMax =
                   Lookup(g.awayMoneylineHistory.max, <<g.awayMoneylineMax>>)

----------------------------------------------------------------------------
(* decimalToAmerican applied to the odds cells of bounded sheet rows *)

\* cells of the sheet: empty, text, not finite, booleans, numbers at and
\* around 1 and 2, and decimal odds whose product ends in .5
DecimalCells ==
    { NULL, UNDEFINED, EMPTYSTR, TEXT, NAN, POSINF, NEGINF, JSTRUE,
      Num(0), Rat(-3, 2), Rat(1, 2), Num(1), Rat(201, 200), Rat(101, 100),
      Rat(3, 2), Rat(191, 100), Rat(399, 200), Num(2), Rat(401, 200),
      Rat(5, 2), Num(21) }

\* the odds cells of one row that are converted together
MaxCells == 2

ConverterInit ==
    /\ OddsIdle
    /\ MetricsIdle
    /\ CacheIdle
    /\ ServerIdle
    /\ MapperIdle
    /\ ResolverIdle
    /\ \E n \in 1..MaxCells : decimalIn \in [1..n -> DecimalCells]
    /\ americanOut = <<>>

\* the odds cells of a row, each through decimalToAmerican
CallDecimalToAmerican ==
    /\ decimalIn # <<>>
    /\ americanOut = <<>>
    /\ americanOut' = [i \in DOMAIN decimalIn |-> decimalToAmerican(decimalIn[i])]
    /\ UNCHANGED <<oddsVars, metricsVars, cacheVars, serverVars, mapperVars,
                   resolverVars, decimalIn>>

ConverterNext == CallDecimalToAmerican

ConverterSpec == ConverterInit /\ [][ConverterNext]_vars

\* a finite number above 1 (a numeric string counts as its number)
IsDecimalOdds(cell) == cell.t = "num" /\ cell.n > cell.d

\* result is an integer and at most 1/2 away from exact
NearestInteger(result, exact) ==
    /\ result.t = "num"
    /\ result.d = 1
    /\ ~JsLess(Rat(1, 2), JsAbs(JsSub(result, exact)))

\* C23: decimalToAmerican gives round((d-1)*100) for d >= 2,
\* -round(100/(d-1)) for 1 < d < 2, and null for d <= 1, empty or
\* non-numeric input; the result is null or an integer of magnitude >= 100
C23_DecimalToAmericanValid ==
    \A i \in DOMAIN americanOut :
        LET d == decimalIn[i]
            r == americanOut[i]
        IN  /\ ~IsDecimalOdds(d) => r = NULL
            /\ IsDecimalOdds(d) /\ d.n >= 2 * d.d =>
                   /\ NearestInteger(r, Rat(100 * (d.n - d.d), d.d))
                   /\ r.n >= 100
            /\ IsDecimalOdds(d) /\ d.n < 2 * d.d =>
                   /\ NearestInteger(JsNeg(r), Rat(100 * d.d, d.n - d.d))
                   /\ r.n <= -100
            /\ r = NULL \/ (r.t = "num" /\ r.d = 1 /\ AbsInt(r.n) >= 100)

\* decimal 1.91 becomes -110 and decimal 2.5 becomes +150
C23_Witness ==
    /\ decimalIn = <<Rat(191, 100), Rat(5, 2)>>
    /\ americanOut = <<Num(-110), Num(150)>>

----------------------------------------------------------------------------
(* Claims on the cache-or-fetch helper *)

\* C7: for any interleaving of /api/games requests that share one cache
\* key, the fetcher is called at most once for that key before ttlSeconds
\* have elapsed.
C7_SingleFlightPerKey ==
    \A k \in CacheKeys : fetches[k] <= 1

\* the response of a request that went through cacheGetSet without a Redis
\* client, or whose redis.get or redis.set rejected or timed out, carries the
\* data the fetcher produced, and no response carries a Redis error
DegradedAnswerIsFetchedData ==
    \A r \in Requests :
        req[r].pc = "done" =>
            /\ req[r].body # RedisError
            /\ (req[r].status = 500) => req[r].body \in {SupabaseEnvError, RpcError}
            /\ (req[r].status = 200 /\ (req[r].redisFailed \/ ~req[r].redis)) =>
                    /\ req[r].data \in FetchedData
                    /\ req[r].body = req[r].data

\* C8: without a Redis client, or when redis.get or redis.set rejects or
\* does not answer before the timeout, cacheGetSet returns the data of the
\* fetcher; a Redis failure or hang never makes the request fail, and the
\* request is answered provided the fetcher completes.
C8_RedisFailureDegradesToFetcher ==
    /\ []DegradedAnswerIsFetchedData
    /\ \A r \in Requests :
          (req[r].pc \in {"get", "fetching", "set"}) ~> (req[r].pc = "done")

\* C8 witness: a request answered 200 with the fetched rows after a Redis
\* failure
C8_Witness ==
    \E r \in Requests :
        /\ req[r].pc = "done"
        /\ req[r].redis
        /\ req[r].redisFailed
        /\ req[r].status = 200
        /\ req[r].body = "rows"

\* redis.get of request r answers with a value that is not null
GetHits(r) ==
    /\ req[r].pc = "get"
    /\ req'[r].pc # "get"
    /\ ~req'[r].redisFailed
    /\ store[req[r].key] # RedisNull

\* C25: when redis.get(key) answers with a non-null value within the
\* timeout, cacheGetSet returns exactly that value: the request is answered
\* 200 with it, the fetcher is not called and redis.set is not called.
C25_CacheHitShortCircuit ==
    [][ \A r \in Requests :
          GetHits(r) =>
            /\ req'[r].pc = "done"
            /\ req'[r].status = 200
            /\ req'[r].body = store[req[r].key].value
            /\ req'[r].data = NoData
            /\ fetches' = fetches
            /\ store' = store ]_vars

\* C25 witness: a request answered with the stored rows, without data of
\* its own
C25_Witness ==
    \E r \in Requests :
        /\ req[r].pc = "done"
        /\ req[r].redis
        /\ ~req[r].redisFailed
        /\ req[r].status = 200
        /\ req[r].data = NoData
        /\ req[r].body = "rows"
        /\ store[req[r].key].value = "rows"

\* C26: when the fetcher throws on a cache miss, redis.set is not called
\* for that request, the handler answers 500 with the error, and the
\* contents of Redis stay as they are: a failed fetch is never cached.
C26_FetcherFailureNotCached ==
    [][ \A r \in Requests :
          req'[r].fetcherThrew =>
            /\ req'[r].pc = "done"
            /\ req'[r].status = 500
            /\ req'[r].body = RpcError
            /\ req'[r].data = NoData
            /\ ~req[r].fetcherThrew => store' = store ]_vars

\* C26 witness: the fetcher threw after redis.get answered null
C26_Witness ==
    \E r \in Requests :
        /\ req[r].fetcherThrew
        /\ req[r].redis
        /\ ~req[r].redisFailed
        /\ req[r].status = 500
        /\ store[req[r].key] = RedisNull

\* C10: without the Upstash credentials responses are cached in memory: a
\* request whose cache key was already answered before ttlSeconds elapsed
\* does not call the fetcher again.
C10_SecondRequestServedFromMemory ==
    \A r \in Requests :
        (~redisEnv /\ req[r].warm) => req[r].pc # "fetching"

----------------------------------------------------------------------------
(* getGamesData under bounded requests *)

SportParams ==
    { <<>>, <<"n", "f", "l">>, <<"N", "F", "L">>, <<"m", "l", "b">> }

DataFileStates == {"missing", "corrupt", "ok"}

ServerInit ==
    /\ OddsIdle
    /\ MetricsIdle
    /\ CacheIdle
    /\ MapperIdle
    /\ ConverterIdle
    /\ ResolverIdle
    /\ supabase \in BOOLEAN
    /\ dataFile \in [Sports -> DataFileStates]
    /\ gameCaches = [sp \in Sports |-> EmptyCache]
    /\ now = 1
    /\ ticks = 0
    /\ call = [c \in Calls |-> IdleCall]

ServerNext ==
    \/ \E c \in Calls, sportParam \in SportParams, filters \in FilterChoices,
          team \in TeamChoices :
          StartGames(c, sportParam, filters, team)
    \/ \E c \in Calls : \E answer \in DatabaseAnswers(call[c].sport) :
          DatabaseReturns(c, answer)
    \/ \E c \in Calls : DatabaseFails(c)
    \/ \E c \in Calls :
          /\ call[c].pc = "signals"
          /\ \E signals \in SignalAnswers(call[c]) : SignalsReturn(c, signals)
    \/ \E c \in Calls : SignalsFail(c)
    \/ \E c \in Calls : FinishCall(c)
    \/ \E ms \in ClockSteps : Advance(ms)

ServerSpec == ServerInit /\ [][ServerNext]_vars

\* C9: getGamesData falls back to the JSON file (and from there to demo
\* data) whenever Supabase is not configured or the Supabase query returns
\* no rows: the list getGamesData hands to the route is never an empty
\* database result.
C9_EmptyDatabaseResultFallsBack ==
    \A c \in Calls :
        call[c].pc = "done" =>
            /\ ~supabase => call[c].from \in {"json", "demo", "cache"}
            /\ ~(call[c].from = "database" /\ call[c].games = <<>>)

\* the step in which call c goes through the JSON/cache path
TakesFallbackPath(c) ==
    /\ call[c].from = "none"
    /\ call'[c].from \in {"cache", "json", "demo"}

\* the age of the list stored for a sport
Age(sport) == now - gameCaches[sport].timestamp

\* C24: on the JSON fallback path the stored list of the sport is served iff
\* one is stored and its age is strictly below CACHE_DURATION; otherwise the
\* list is loaded again and cache.data and cache.timestamp are both set. So
\* a list served from the cache is never 5 minutes old or older, and a load
\* happens only when nothing is stored or the stored list has expired.
C24_CacheExpiry ==
    [][ \A c \in Calls :
          TakesFallbackPath(c) =>
            LET sport == call'[c].sport
                stored == gameCaches[sport].data # NoList
            IN  /\ call'[c].from = "cache" <=>
                       (stored /\ Age(sport) < CACHE_DURATION)
                /\ call'[c].from = "cache" => gameCaches' = gameCaches
                /\ call'[c].from # "cache" =>
                       /\ gameCaches'[sport].data # NoList
                       /\ gameCaches'[sport].timestamp = now
                       /\ ~stored \/ Age(sport) >= CACHE_DURATION ]_vars

\* C24 witness: a list served from the cache one millisecond before it
\* expires
C24_Witness ==
    \E c \in Calls :
        /\ call[c].from = "cache"
        /\ Age(call[c].sport) = CACHE_DURATION - 1

\* C27: gameCaches[sport].data is null or the full unfiltered list of the
\* last load for that sport; the filters (season, week, conference, limit)
\* never replace or change the stored list, a request for one sport never
\* changes the entry of the other sport, and a cache hit returns the filters
\* applied to the stored list.
C27_CacheHoldsUnfilteredList ==
    [][ /\ \A sp \in Sports :
              \/ gameCaches'[sp].data = NoList
              \/ gameCaches'[sp].data = loadGamesForSport(sp)
        /\ \A c \in Calls :
              TakesFallbackPath(c) =>
                LET q == call'[c]
                IN  /\ \A sp \in Sports \ {q.sport} :
                          gameCaches'[sp] = gameCaches[sp]
                    /\ gameCaches[q.sport].data # NoList =>
                          gameCaches'[q.sport].data \in
                              {gameCaches[q.sport].data, loadGamesForSport(q.sport)}
                    /\ q.from = "cache" =>
                          /\ gameCaches' = gameCaches
                          /\ q.games =
                                ApplyTeamFilter(
                                    ApplyFilters(gameCaches[q.sport].data, q.filters),
                                    q.team)
        /\ (\A c \in Calls : ~TakesFallbackPath(c)) => gameCaches' = gameCaches
      ]_vars

\* C27 witness: a filtered cache hit for nfl that returned one game while
\* the whole list is still stored and nothing is stored for ncaaf
C27_Witness ==
    \E c \in Calls :
        /\ call[c].from = "cache"
        /\ call[c].sport = "nfl"
        /\ call[c].filters # NoFilters
        /\ call[c].team = <<>>
        /\ Len(call[c].games) = 1
        /\ gameCaches["nfl"].data = JsonGames("nfl")
        /\ gameCaches["ncaaf"].data = NoList

\* C28: the source of a successful /api/games response is 'database' iff
\* the games it returns were loaded from Supabase; after a failed Supabase
\* load and the fallback to the JSON file, the cache or demo data it is
\* 'json'.
C28_SourceLabelAccurate ==
    \A c \in Calls :
        call[c].pc = "done" =>
            /\ call[c].source = "database" <=> call[c].from = "database"
            /\ call[c].from \in {"json", "demo", "cache"} =>
                   call[c].source = "json"

----------------------------------------------------------------------------
(* resolveSportKey applied to bounded query parameters *)

\* the longest generated parameter
MaxSportLen == 3

SportLetters == {"n", "f", "l", "N", "F", "L"}

\* parameters with a meaning: the configured sports in several spellings,
\* an unknown sport, and names of members of Object.prototype
NamedSportParams ==
    { <<"n", "c", "a", "a", "f">>, <<"N", "C", "A", "A", "F">>,
      <<"N", "c", "a", "a", "F">>, <<"m", "l", "b">>,
      <<"c", "o", "n", "s", "t", "r", "u", "c", "t", "o", "r">>,
      <<"_", "_", "p", "r", "o", "t", "o", "_", "_">>,
      <<"t", "o", "S", "t", "r", "i", "n", "g">> }

ResolverInit ==
    /\ OddsIdle
    /\ MetricsIdle
    /\ CacheIdle
    /\ ServerIdle
    /\ MapperIdle
    /\ ConverterIdle
    /\ \/ sportIn \in NamedSportParams
       \/ \E n \in 0..MaxSportLen : sportIn \in [1..n -> SportLetters]
    /\ sportKeyOut = <<>>

CallResolveSportKey ==
    /\ sportKeyOut = <<>>
    /\ sportKeyOut' = <<resolveSportKey(sportIn)>>
    /\ UNCHANGED <<oddsVars, metricsVars, cacheVars, serverVars, mapperVars,
                   converterVars, sportIn>>

ResolverNext == CallResolveSportKey

ResolverSpec == ResolverInit /\ [][ResolverNext]_vars

\* C29: resolveSportKey returns 'ncaaf' or 'nfl' for every input: the
\* lower-cased input when it names a configured sport, the default 'ncaaf'
\* for every other value, so SPORT_CONFIG and gameCaches always have an
\* entry for the result.
C29_ResolvesToConfiguredSport ==
    sportKeyOut # <<>> =>
        LET key == toLowerCase(sportIn)
            result == sportKeyOut[1]
        IN  /\ result \in Sports
            /\ \A sp \in Sports : Characters(sp) = key => result = sp
            /\ (\A sp \in Sports : Characters(sp) # key) =>
                   result = DEFAULT_SPORT

----------------------------------------------------------------------------
(* The mappers applied to bounded raw rows *)

\* HomeScore of a raw row: absent, null, '', text, numbers
HomeScoreValues == {UNDEFINED, NULL, EMPTYSTR, TEXT, Num(0), Num(21)}

AwayScoreValues == {UNDEFINED, NULL, Num(17)}

\* Completed of a raw row: absent, booleans, a string
CompletedValues == {UNDEFINED, JSTRUE, JSFALSE, Text("true")}

PlayoffValues == {UNDEFINED, JSTRUE, Text("Yes"), Num(0)}

\* a row with scores and flags
ScoreRow(homeScore, lowerHomeScore, awayScore, completedFlag, playoff) ==
    [EmptyRow EXCEPT !["Id"] = Num(1),
                     !["HomeTeam"] = TEXT,
                     !["HomeScore"] = homeScore,
                     !["homeScore"] = lowerHomeScore,
                     !["AwayScore"] = awayScore,
                     !["Completed"] = completedFlag,
                     !["PlayoffGame"] = playoff]

\* a row with the fields of one market channel
ChannelRow(prefix, open, lowerOpen, min, close, scalar) ==
    [EmptyRow EXCEPT !["Id"] = Num(2),
                     ![prefix \o "Open"] = open,
                     ![LowerFirstOfPrefix(prefix) \o "Open"] = lowerOpen,
                     ![prefix \o "Min"] = min,
                     ![prefix \o "Close"] = close,
                     ![prefix] = scalar]

ChannelsTried == {"HomeMoneyline", "TotalScore"}

MapperInit ==
    /\ OddsIdle
    /\ MetricsIdle
    /\ CacheIdle
    /\ ServerIdle
    /\ ConverterIdle
    /\ ResolverIdle
    /\ mappedGames = <<>>
    /\ \/ \E hs \in HomeScoreValues, lhs \in {UNDEFINED, Num(7)} :
          \E as \in AwayScoreValues, cf \in CompletedValues :
          \E pg \in PlayoffValues :
             rawGames = <<ScoreRow(hs, lhs, as, cf, pg)>>
       \/ \E prefix \in ChannelsTried :
          \E open \in {UNDEFINED, TEXT, Num(-110)} :
          \E lowerOpen \in {UNDEFINED, Num(120)} :
          \E min \in {UNDEFINED, Num(-130)} :
          \E close \in {UNDEFINED, Num(-120)} :
          \E scalar \in {UNDEFINED, POSINF, Num(-115)} :
             rawGames = <<ChannelRow(prefix, open, lowerOpen, min, close, scalar)>>

MapperNext == CallMapNCAAFGame \/ CallMapNFLGame

MapperSpec == MapperInit /\ [][MapperNext]_vars

----------------------------------------------------------------------------
(* Claims on the mappers *)

\* C19: in every record the mappers produce, completed = true implies that
\* homeScore and awayScore are both present.
C19_CompletedImpliesScores ==
    \A i \in DOMAIN mappedGames :
        mappedGames[i].completed = JSTRUE =>
            /\ mappedGames[i].homeScore # NULL
            /\ mappedGames[i].awayScore # NULL

\* the {open, min, max, close} tuples attached to a mapped record
AttachedTuples(g) ==
    {g[k] : k \in DOMAIN g \cap {"totalHistory", "totalOverOddsHistory",
                                  "totalUnderOddsHistory"}}
    \cup UNION {{g[k].home, g[k].away} :
                   k \in DOMAIN g \cap {"moneylineHistory", "spreadHistory",
                                         "spreadOddsHistory"}}

\* C20: a history tuple is attached to a mapped record only if at least one
\* of its four fields is present.
C20_NoAllNullHistoryAttached ==
    \A i \in DOMAIN mappedGames :
        \A h \in AttachedTuples(mappedGames[i]) :
            {h.open, h.min, h.max, h.close} # {NULL}

====
